---- MODULE Spec2Model ----
(***************************************************************************)
(* Model of the highlight pipeline of app/final_highlight_creator.py:     *)
(* the interval merger (_detect_overlaps), the result cache               *)
(* (_is_cache_valid) and the stitching pipeline (create_final_highlight), *)
(* and of the backend: the websocket ConnectionManager, the two tasks of  *)
(* backend/app/tasks/video_tasks.py and auto_select_highlights.           *)
(*                                                                         *)
(* Python values are encoded as follows.                                   *)
(*   Optional[T]  : <<>> for None, <<v>> for a present value v             *)
(*   str          : description strings are sequences of tokens, so that   *)
(*                  concatenation is \o; categories are TLA+ strings       *)
(*   object       : an index into heap, the store of HighlightClip objects *)
(*   list         : a sequence of object references                        *)
(***************************************************************************)
EXTENDS Integers, Sequences, FiniteSets, TLC

VARIABLES
    heap,             \* HighlightClip objects, by reference
    highlights,       \* the caller's list passed to _detect_overlaps
    non_overlapping,  \* the list returned by _detect_overlaps(highlights)
    again,            \* the list returned by _detect_overlaps(non_overlapping)
    before,           \* the object store as the last call of the merger found it
    mpc,              \* "input", "merged" or "remerged"
    fs,               \* the files of one output directory
    assets,           \* which of the intro and outro assets exist
    clock,            \* the time the file system stamps files with
    pc,               \* "idle", or the stage create_final_highlight is about to run
    video_highlights, \* the highlight list of the video the directory belongs to
    call,             \* the arguments of the current (or last) call
    locals,           \* the local variables of the current call
    log,              \* what the current (or last) call has performed
    result,           \* the value the last call returned, if any
    outcome,          \* how the last call ended: "none", "returned" or "raised"
    fresh,            \* the artifact was rebuilt and no file has changed since
    calls,            \* the number of calls made so far
    in_flight,        \* media-tool invocations of the call that have not finished
    request,          \* the highlight whose clip is to be cut
    ffmpeg_input,     \* the ss and t that ffmpeg.input was given for it, if any
    epc,              \* "input", or the extractor that has cut the clip
    abs_path,         \* an absolute path, as a sequence of characters
    other_path,       \* another absolute path
    lines,            \* the manifest lines written for the two paths
    wpc,              \* "input" or "written"
    disk,             \* the output directories output/<key>, by key
    disk0,            \* the output directories as they were at the start
    runs,             \* the concurrent calls of create_final_highlight
    touched,          \* per call, the paths it has created, written or removed
    thread,           \* the call that keeps the event loop's thread busy, or 0
    active_connections, \* ConnectionManager: the client ids with a websocket
    video_subscribers,  \* ConnectionManager: per video, its set of client ids, if any
    broadcast,        \* the call of broadcast_to_video in progress, or the last one
    last_op,          \* "left" when the manager's last operation ended a subscription
    db_videos,        \* the committed rows of the videos table, by video id
    tasks,            \* the calls of process_video_task, by video id
    notifications,    \* per video, the notifications sent for it so far
    reel,             \* a call of generate_highlight_reel_task
    selection         \* a call of auto_select_highlights and the rows it works on

mergeVars == <<heap, highlights, non_overlapping, again, before, mpc>>

runVars ==
    <<fs, assets, clock, pc, video_highlights, call, locals, log, result, outcome,
      fresh, calls, in_flight>>

clipVars == <<request, ffmpeg_input, epc>>

escapeVars == <<abs_path, other_path, lines, wpc>>

pairVars == <<disk, disk0, runs, touched, thread>>

wsVars == <<active_connections, video_subscribers, broadcast, last_op>>

taskVars == <<db_videos, tasks, notifications>>

reelVars == <<reel>>

selectVars == <<selection>>

backendVars == <<wsVars, taskVars, reelVars, selectVars>>

pipelineVars == <<mergeVars, runVars, clipVars, escapeVars, pairVars>>

vars == <<mergeVars, runVars, clipVars, escapeVars, pairVars, backendVars>>

(***************************************************************************)
(* Bounds of the model.                                                    *)
(***************************************************************************)
MaxLen == 3       \* longest highlight list handed to the merger
MaxTime == 3      \* largest time stamp, in seconds
MaxClock == 1     \* latest modification time of a file
MaxCalls == 2     \* calls of create_final_highlight on the directory
MaxRunTime == 2   \* largest time stamp of a highlight handed to the pipeline
MaxClipTime == 7  \* largest time stamp of a highlight handed to an extractor
MaxPathLen == 4   \* longest path written to a manifest, in characters

(***************************************************************************)
(* Python helpers.                                                         *)
(***************************************************************************)
None == <<>>
Some(v) == <<v>>

Max(a, b) == IF a >= b THEN a ELSE b

\* x or 0, for an Optional[float]: None and 0 are falsy
OrZero(x) == IF x = None THEN 0 ELSE IF x[1] = 0 THEN 0 ELSE x[1]

\* x or y, for two Optional[str]: None and "" are falsy
OrStr(x, y) == IF x = None THEN y ELSE IF x[1] = "" THEN y ELSE x

\* Highlight._format_time: MM:SS, or HH:MM:SS from one hour on
FormatTime(seconds) ==
    LET hours == seconds \div 3600
        minutes == (seconds % 3600) \div 60
        secs == seconds % 60
    IN  IF hours > 0 THEN <<hours, minutes, secs>> ELSE <<minutes, secs>>

(***************************************************************************)
(* HighlightClip, as VideoAnalysis.to_json and the /highlights endpoint    *)
(* build it: the formatted times and the duration derive from the times.   *)
(***************************************************************************)
HighlightClip(start, end, description, score, category) ==
    [start_time |-> start,
     end_time |-> end,
     start_time_formatted |-> Some(FormatTime(start)),
     end_time_formatted |-> Some(FormatTime(end)),
     duration |-> Some(end - start),
     description |-> description,
     importance_score |-> score,
     category |-> category]

\* the analysis collaborator only hands out intervals with start < end
Intervals == {iv \in (0..MaxTime) \X (0..MaxTime) : iv[1] < iv[2]}

\* score and category of an interval, as they come out of the analysis
Metadata ==
    { <<None, None>>, <<Some(3), Some("")>>,
      <<Some(7), Some("goal")>>, <<Some(5), Some("save")>> }

\* the description of the i-th highlight of the input: one token
Description(i) == <<i>>

Separator == "|"

(***************************************************************************)
(* sorted(highlights, key=lambda x: x.start_time): a stable sort, returned *)
(* as a new list; the argument is left as it is.                           *)
(***************************************************************************)
RECURSIVE InsertByStart(_, _, _)
InsertByStart(hp, sorted, ref) ==
    IF sorted = <<>> THEN <<ref>>
    ELSE IF hp[Head(sorted)].start_time <= hp[ref].start_time
         THEN <<Head(sorted)>> \o InsertByStart(hp, Tail(sorted), ref)
         ELSE <<ref>> \o sorted

RECURSIVE SortedByStartFrom(_, _, _)
SortedByStartFrom(hp, refs, k) ==
    IF k = 0 THEN <<>>
    ELSE InsertByStart(hp, SortedByStartFrom(hp, refs, k - 1), refs[k])

SortedByStart(hp, refs) == SortedByStartFrom(hp, refs, Len(refs))

(***************************************************************************)
(* The body of the loop of _detect_overlaps.                               *)
(***************************************************************************)
OverlapsOrTouches(last_highlight, highlight) ==
    highlight.start_time <= last_highlight.end_time

NeverOverlaps(last_highlight, highlight) == FALSE

Overlaps(last_highlight, highlight) ==
    highlight.start_time < last_highlight.end_time

MergedHighlightNoMax(last_highlight, highlight) ==
    [start_time |-> last_highlight.start_time,
     end_time |-> highlight.end_time,
     start_time_formatted |-> last_highlight.start_time_formatted,
     end_time_formatted |-> highlight.end_time_formatted,
     duration |-> Some(highlight.end_time - last_highlight.start_time),
     description |->
         last_highlight.description \o <<Separator>> \o highlight.description,
     importance_score |->
         Some(Max(OrZero(last_highlight.importance_score),
                  OrZero(highlight.importance_score))),
     category |-> OrStr(last_highlight.category, highlight.category)]

MergedHighlight(last_highlight, highlight) ==
    [start_time |-> last_highlight.start_time,
     end_time |-> Max(last_highlight.end_time, highlight.end_time),
     start_time_formatted |-> last_highlight.start_time_formatted,
     end_time_formatted |-> highlight.end_time_formatted,
     duration |->
         Some(Max(last_highlight.end_time, highlight.end_time)
              - last_highlight.start_time),
     description |->
         last_highlight.description \o <<Separator>> \o highlight.description,
     importance_score |->
         Some(Max(OrZero(last_highlight.importance_score),
                  OrZero(highlight.importance_score))),
     category |-> OrStr(last_highlight.category, highlight.category)]

\* a merge that updates the last placed object instead of building a new one
PlaceInPlace(acc, ref) ==
    LET hp == acc.heap
        out == acc.out
    IN  IF out = <<>> THEN [heap |-> hp, out |-> <<ref>>]
        ELSE LET last_ref == out[Len(out)]
             IN  IF Overlaps(hp[last_ref], hp[ref])
                 THEN [heap |-> [hp EXCEPT ![last_ref] =
                                     MergedHighlight(hp[last_ref], hp[ref])],
                       out |-> out]
                 ELSE [heap |-> hp, out |-> Append(out, ref)]

\* a merge that appends the merged interval instead of replacing the last one
PlaceAppending(acc, ref) ==
    LET hp == acc.heap
        out == acc.out
    IN  IF out = <<>> THEN [heap |-> hp, out |-> <<ref>>]
        ELSE LET last_ref == out[Len(out)]
             IN  IF Overlaps(hp[last_ref], hp[ref])
                 THEN [heap |-> Append(hp, MergedHighlight(hp[last_ref], hp[ref])),
                       out |-> Append(out, Len(hp) + 1)]
                 ELSE [heap |-> hp, out |-> Append(out, ref)]

\* acc.out is non_overlapping, acc.heap the object store; ref is highlight
Place(acc, ref) ==
    LET hp == acc.heap
        out == acc.out
    IN  IF out = <<>> THEN [heap |-> hp, out |-> <<ref>>]
        ELSE LET last_ref == out[Len(out)]
             IN  IF Overlaps(hp[last_ref], hp[ref])
                 THEN [heap |-> Append(hp, MergedHighlight(hp[last_ref], hp[ref])),
                       out |-> [out EXCEPT ![Len(out)] = Len(hp) + 1]]
                 ELSE [heap |-> hp, out |-> Append(out, ref)]

RECURSIVE PlaceAll(_, _, _)
PlaceAll(hp, sorted_highlights, k) ==
    IF k = 0 THEN [heap |-> hp, out |-> <<>>]
    ELSE Place(PlaceAll(hp, sorted_highlights, k - 1), sorted_highlights[k])

\* _detect_overlaps: the object store after the call and the returned list
DetectOverlaps(hp, refs) ==
    IF refs = <<>> THEN [heap |-> hp, out |-> <<>>]
    ELSE LET sorted_highlights == SortedByStart(hp, refs)
         IN  PlaceAll(hp, sorted_highlights, Len(sorted_highlights))

\* the values of a list of references
Deref(hp, refs) == [k \in 1..Len(refs) |-> hp[refs[k]]]

(***************************************************************************)
(* The merger applied to every bounded input, and again to its own output. *)
(***************************************************************************)
MergeInit ==
    /\ \E n \in 0..MaxLen :
         /\ highlights = [k \in 1..n |-> k]
         /\ \E iv \in [1..n -> Intervals], md \in [1..n -> Metadata] :
              heap = [k \in 1..n |->
                        HighlightClip(iv[k][1], iv[k][2], Description(k),
                                      md[k][1], md[k][2])]
    /\ non_overlapping = <<>>
    /\ again = <<>>
    /\ before = <<>>
    /\ mpc = "input"

CallDetectOverlaps ==
    /\ mpc = "input"
    /\ LET r == DetectOverlaps(heap, highlights)
       IN  /\ heap' = r.heap
           /\ non_overlapping' = r.out
    /\ before' = heap
    /\ mpc' = "merged"
    /\ UNCHANGED <<highlights, again>>
    /\ UNCHANGED runVars
    /\ UNCHANGED <<clipVars, escapeVars, pairVars, backendVars>>

CallDetectOverlapsAgain ==
    /\ mpc = "merged"
    /\ LET r == DetectOverlaps(heap, non_overlapping)
       IN  /\ heap' = r.heap
           /\ again' = r.out
    /\ before' = heap
    /\ mpc' = "remerged"
    /\ UNCHANGED <<highlights, non_overlapping>>
    /\ UNCHANGED runVars
    /\ UNCHANGED <<clipVars, escapeVars, pairVars, backendVars>>

MergeNext == CallDetectOverlaps \/ CallDetectOverlapsAgain

(***************************************************************************)
(* The merger as a function of any list of intervals with start_time <=    *)
(* end_time: _detect_overlaps itself accepts intervals of length zero.     *)
(***************************************************************************)
ClosedIntervals == {iv \in (0..MaxTime) \X (0..MaxTime) : iv[1] <= iv[2]}

CoverInit ==
    /\ \E n \in 0..MaxLen :
         /\ highlights = [k \in 1..n |-> k]
         /\ \E iv \in [1..n -> ClosedIntervals] :
              heap = [k \in 1..n |->
                        HighlightClip(iv[k][1], iv[k][2], Description(k),
                                      Some(7), Some("goal"))]
    /\ non_overlapping = <<>>
    /\ again = <<>>
    /\ before = <<>>
    /\ mpc = "input"

(***************************************************************************)
(* The output directory.  A file that is absent is None.                   *)
(*   final            final_highlight.mp4: modification time, size (in     *)
(*                    manifest entries), whether it was written whole      *)
(*   clips_json       clips.json: modification time                        *)
(*   temp_clips       the directory temp_clips: the set of its clip files  *)
(*   concat_list      concat_list.txt: its lines, in order                 *)
(*   normalized_intro normalized_intro.mp4: the parameters it was made with*)
(*   normalized_outro normalized_outro.mp4: likewise                       *)
(*   video            video.mp4, the downloaded source: modification time  *)
(***************************************************************************)
EmptyDir ==
    [final |-> None, clips_json |-> None, temp_clips |-> None,
     concat_list |-> None, normalized_intro |-> None, normalized_outro |-> None,
     video |-> None]

\* intro and outro are cut to two seconds each
IntroOutroSeconds == 2

\* _is_cache_valid without the comparison of the modification times
IsCacheValidAnyAge(final, clips_json) == final # None /\ clips_json # None

\* _is_cache_valid without the check that clips.json exists
IsCacheValidIgnoringSource(final, clips_json) ==
    IF final = None THEN FALSE
    ELSE clips_json = None \/ final[1].mtime >= clips_json[1].mtime

\* _is_cache_valid with > in place of >=
IsCacheValidStrict(final, clips_json) ==
    IF final = None \/ clips_json = None THEN FALSE
    ELSE final[1].mtime > clips_json[1].mtime

\* _is_cache_valid(final_highlight_path, clips_json_path)
IsCacheValid(final, clips_json) ==
    IF final = None \/ clips_json = None THEN FALSE
    ELSE final[1].mtime >= clips_json[1].mtime

\* _detect_overlaps on a list of HighlightClip values
NonOverlappingHighlights(hs) ==
    LET r == DetectOverlaps(hs, [k \in 1..Len(hs) |-> k])
    IN  Deref(r.heap, r.out)

\* sum(h.end_time - h.start_time for h in hs)
RECURSIVE SumDurationsFrom(_, _)
SumDurationsFrom(hs, k) ==
    IF k = 0 THEN 0
    ELSE SumDurationsFrom(hs, k - 1) + (hs[k].end_time - hs[k].start_time)

SumDurations(hs) == SumDurationsFrom(hs, Len(hs))

IntroDuration == IF assets.intro THEN IntroOutroSeconds ELSE 0
OutroDuration == IF assets.outro THEN IntroOutroSeconds ELSE 0

\* the response of a cache hit
CachedResult(hs, final) ==
    [success |-> TRUE,
     message |-> "Final highlight already exists (cached)",
     output_path |-> "final_highlight.mp4",
     already_exists |-> TRUE,
     file_size_bytes |-> final.size,
     cached_at |-> final.mtime,
     clips_used |-> Len(hs),
     highlights_duration |-> SumDurations(hs),
     intro_duration |-> IntroDuration,
     outro_duration |-> OutroDuration,
     total_duration |-> SumDurations(hs) + IntroDuration + OutroDuration,
     has_intro |-> assets.intro,
     has_outro |-> assets.outro]

\* a response that sums the durations of the highlights as they were given
FreshResultOfInput(non_overlapping_highlights, clip_paths, main_clip_properties) ==
    [success |-> TRUE,
     message |-> "Final highlight created successfully with intro and outro",
     output_path |-> "final_highlight.mp4",
     clips_used |-> Len(clip_paths),
     highlights_duration |-> SumDurations(video_highlights),
     intro_duration |-> IntroDuration,
     outro_duration |-> OutroDuration,
     total_duration |->
         SumDurations(video_highlights) + IntroDuration + OutroDuration,
     has_intro |-> assets.intro,
     has_outro |-> assets.outro,
     video_properties |-> main_clip_properties,
     highlights |->
         [k \in 1..Len(non_overlapping_highlights) |->
            [start_time |-> non_overlapping_highlights[k].start_time,
             end_time |-> non_overlapping_highlights[k].end_time,
             description |-> non_overlapping_highlights[k].description,
             importance_score |-> non_overlapping_highlights[k].importance_score]]]

\* the response of a run that went through the whole pipeline
FreshResult(non_overlapping_highlights, clip_paths, main_clip_properties) ==
    [success |-> TRUE,
     message |-> "Final highlight created successfully with intro and outro",
     output_path |-> "final_highlight.mp4",
     clips_used |-> Len(clip_paths),
     highlights_duration |-> SumDurations(non_overlapping_highlights),
     intro_duration |-> IntroDuration,
     outro_duration |-> OutroDuration,
     total_duration |->
         SumDurations(non_overlapping_highlights) + IntroDuration + OutroDuration,
     has_intro |-> assets.intro,
     has_outro |-> assets.outro,
     video_properties |-> main_clip_properties,
     highlights |->
         [k \in 1..Len(non_overlapping_highlights) |->
            [start_time |-> non_overlapping_highlights[k].start_time,
             end_time |-> non_overlapping_highlights[k].end_time,
             description |-> non_overlapping_highlights[k].description,
             importance_score |-> non_overlapping_highlights[k].importance_score]]]

Failure(error, message) == [success |-> FALSE, error |-> error, message |-> message]

\* an exception that the handler lets through to the caller
Propagate(error) == [outcome |-> "raised", result |-> None]

\* except Exception as e: return the failure value
HandleException(error) ==
    [outcome |-> "returned",
     result |-> Some(Failure(error, "Failed to create final highlight"))]

\* str(e) of the OSError that open() or os.makedirs() raises on a path: the
\* message of the operating system and the path, with no stage in it
OpenError(path) ==
    IF path = "concat_list.txt"
    THEN "[Errno 13] Permission denied: 'concat_list.txt'"
    ELSE "[Errno 13] Permission denied: 'temp_clips'"

Return(value) == [outcome |-> "returned", result |-> Some(value)]

NoLocals ==
    [non_overlapping_highlights |-> <<>>, k |-> 0, clip_paths |-> <<>>,
     main_clip_properties |-> None,
     normalized_intro_path |-> None, normalized_outro_path |-> None]

NoCall == [overwrite |-> FALSE, highlights |-> <<>>]

Done(stage, idx, ok) == [stage |-> stage, idx |-> idx, ok |-> ok]

\* clip_{i:03d}_{start_time}-{end_time}.mp4, i counted from 0
ClipFile(i, highlight) ==
    [kind |-> "clip", i |-> i,
     start |-> highlight.start_time, end |-> highlight.end_time]

NormalizedIntroFile == [kind |-> "normalized_intro", i |-> 0, start |-> 0, end |-> 0]
NormalizedOutroFile == [kind |-> "normalized_outro", i |-> 0, start |-> 0, end |-> 0]

\* what ffmpeg.probe finds in a clip cut from the source video
ProbedProperties ==
    [width |-> 1920, height |-> 1080, codec |-> "h264",
     pixel_format |-> "yuv420p", fps |-> 30]

\* the output parameters _normalize_video_file adds for the target properties
NormalizeParams(target_properties) ==
    [t |-> IntroOutroSeconds,
     s |-> IF /\ target_properties # None
              /\ target_properties[1].width # 0
              /\ target_properties[1].height # 0
           THEN Some(<<target_properties[1].width, target_properties[1].height>>)
           ELSE None,
     r |-> IF target_properties # None /\ target_properties[1].fps # 0
           THEN Some(target_properties[1].fps)
           ELSE None]

\* the highlight lists handed to create_final_highlight
RunClip(k, iv) == HighlightClip(iv[1], iv[2], Description(k), Some(7), Some("goal"))

RunIntervals == {iv \in Intervals : iv[2] <= MaxRunTime}

RunInputs ==
    UNION { { [k \in 1..n |-> RunClip(k, iv[k])] : iv \in [1..n -> RunIntervals] }
            : n \in 0..MaxLen }

(***************************************************************************)
(* create_final_highlight, one action per stage.                           *)
(***************************************************************************)
\* a cache check that does not look at overwrite
CacheHitWhenValid(overwrite, valid) == valid

\* if not overwrite and self._is_cache_valid(...)
CacheHit(overwrite, valid) == ~overwrite /\ valid

\* a pipeline that goes on with an empty list of merged intervals
NoValidClipsIgnored(non_overlapping_highlights) == FALSE

\* if not non_overlapping_highlights
NoValidClips(non_overlapping_highlights) == non_overlapping_highlights = <<>>

Finish(r) ==
    /\ pc' = "idle"
    /\ result' = r.result
    /\ outcome' = r.outcome
    /\ locals' = NoLocals

\* the call up to the extraction loop: cache check, overlap resolution and
\* the creation of the temp_clips directory
Begin(hs, overwrite, mkdir_ok) ==
    /\ pc = "idle"
    /\ calls < MaxCalls
    /\ calls' = calls + 1
    /\ call' = [overwrite |-> overwrite, highlights |-> hs]
    /\ LET valid == IsCacheValid(fs.final, fs.clips_json)
           checked == IF overwrite THEN <<>>
                      ELSE <<Done("is_cache_valid", 0, valid)>>
           non_overlapping_highlights == NonOverlappingHighlights(hs)
       IN  IF CacheHit(overwrite, valid)
           THEN /\ mkdir_ok
                /\ log' = checked
                /\ Finish(Return(CachedResult(hs, fs.final[1])))
                /\ UNCHANGED <<fs, fresh>>
           ELSE IF NoValidClips(non_overlapping_highlights)
           THEN /\ mkdir_ok
                /\ log' = checked \o <<Done("overlap_resolution", 0, TRUE)>>
                /\ Finish(Return(Failure("No valid clips to stitch together",
                                         "No highlights available for final video")))
                /\ fresh' = FALSE
                /\ UNCHANGED fs
           ELSE IF ~mkdir_ok
           THEN /\ log' = checked \o <<Done("overlap_resolution", 0, TRUE),
                                        Done("makedirs", 0, FALSE)>>
                /\ Finish(HandleException(OpenError("temp_clips")))
                /\ fresh' = FALSE
                /\ UNCHANGED fs
           ELSE /\ log' = checked \o <<Done("overlap_resolution", 0, TRUE),
                                        Done("makedirs", 0, TRUE)>>
                /\ fs' = [fs EXCEPT !.temp_clips =
                              IF @ = None THEN Some({}) ELSE @]
                /\ locals' = [NoLocals EXCEPT
                                 !.non_overlapping_highlights =
                                     non_overlapping_highlights,
                                 !.k = 1]
                /\ pc' = IF non_overlapping_highlights = <<>>
                         THEN "probe" ELSE "extract"
                /\ result' = None
                /\ outcome' = "none"
                /\ fresh' = FALSE
    /\ UNCHANGED <<assets, video_highlights, clock>>
    /\ UNCHANGED in_flight
    /\ UNCHANGED mergeVars
    /\ UNCHANGED <<clipVars, escapeVars, pairVars, backendVars>>

\* a loop that ends at the first extraction that fails
AfterExtractionStopOnFailure(k, n, ok) == IF k = n \/ ~ok THEN "probe" ELSE "extract"

\* where the loop goes after iteration k of n: `continue` after a failure,
\* the next iteration after a success, the return after the last one
AfterExtraction(k, n, ok) == IF k = n THEN "probe" ELSE "extract"

\* a coroutine that waits only once two invocations are in flight
AwaitingSecond(n) == n > 1

\* await loop.run_in_executor(...): the coroutine is suspended while the
\* invocation it started has not finished
Awaiting(n) == n > 0

\* the stages that run ffmpeg in the executor
ToolStages ==
    {"extract", "stitch"}
    \cup (IF assets.intro THEN {"normalize_intro"} ELSE {})
    \cup (IF assets.outro THEN {"normalize_outro"} ELSE {})

\* loop.run_in_executor(None, lambda: ffmpeg.run(...)): the invocation starts
RunInExecutor ==
    /\ pc \in ToolStages
    /\ ~Awaiting(in_flight)
    /\ in_flight' = in_flight + 1
    /\ UNCHANGED <<fs, assets, clock, pc, video_highlights, call, locals, log,
                   result, outcome, fresh, calls>>
    /\ UNCHANGED mergeVars
    /\ UNCHANGED <<clipVars, escapeVars, pairVars, backendVars>>

\* one iteration of the loop of _extract_individual_clips
ExtractClip(ok) ==
    /\ pc = "extract"
    /\ in_flight > 0
    /\ in_flight' = in_flight - 1
    /\ LET k == locals.k
           highlight == locals.non_overlapping_highlights[k]
           clip_path == ClipFile(k - 1, highlight)
       IN  /\ log' = Append(log, Done("extract", k, ok))
           /\ IF ok
              THEN /\ fs' = [fs EXCEPT !.temp_clips =
                                 Some(@[1] \cup {clip_path})]
                   /\ locals' = [locals EXCEPT
                                    !.clip_paths = Append(@, clip_path),
                                    !.k = k + 1]
              ELSE /\ fs' = fs
                   /\ locals' = [locals EXCEPT !.k = k + 1]
           /\ pc' = AfterExtraction(k, Len(locals.non_overlapping_highlights), ok)
    /\ UNCHANGED <<assets, video_highlights, calls, clock, call, result, outcome, fresh>>
    /\ UNCHANGED mergeVars
    /\ UNCHANGED <<clipVars, escapeVars, pairVars, backendVars>>

\* a pipeline that goes on without any extracted clip
NoClipsExtractedIgnored(clip_paths) == FALSE

\* if not clip_paths
NoClipsExtracted(clip_paths) == clip_paths = <<>>

\* a probe of the clip of the first merged interval, extracted or not
ProbedClipOfFirstInterval(clip_paths, non_overlapping_highlights) ==
    ClipFile(0, non_overlapping_highlights[1])

\* clip_paths[0]: the first clip whose extraction succeeded
ProbedClip(clip_paths, non_overlapping_highlights) == clip_paths[1]

\* the check of the extracted clips and _get_video_properties(clip_paths[0])
PropertyProbe(properties) ==
    /\ pc = "probe"
    /\ IF NoClipsExtracted(locals.clip_paths)
       THEN /\ properties = None
            /\ log' = log
            /\ Finish(Return(Failure("Failed to extract any clips",
                                     "No clips were successfully extracted")))
       ELSE IF locals.clip_paths = <<>>
       THEN \* clip_paths[0] raises IndexError
            /\ properties = None
            /\ log' = log
            /\ Finish(HandleException("list index out of range"))
       ELSE /\ log' = Append(log, Done("probe",
                                       ProbedClip(locals.clip_paths,
                                           locals.non_overlapping_highlights).i,
                                       properties # None))
            /\ locals' = [locals EXCEPT !.main_clip_properties = properties]
            /\ pc' = "normalize_intro"
            /\ UNCHANGED <<result, outcome>>
    /\ UNCHANGED <<fs, assets, video_highlights, calls, clock, call, fresh>>
    /\ UNCHANGED in_flight
    /\ UNCHANGED mergeVars
    /\ UNCHANGED <<clipVars, escapeVars, pairVars, backendVars>>

\* _normalize_intro_outro, the intro
NormalizeIntro(ok) ==
    /\ pc = "normalize_intro"
    /\ IF ~assets.intro
       THEN /\ ok
            /\ pc' = "normalize_outro"
            /\ UNCHANGED <<fs, locals, log, result, outcome, in_flight>>
       ELSE /\ in_flight > 0
            /\ in_flight' = in_flight - 1
            /\ log' = Append(log, Done("normalize_intro", 0, ok))
            /\ IF ok
               THEN /\ fs' = [fs EXCEPT !.normalized_intro =
                                  Some(NormalizeParams(locals.main_clip_properties))]
                    /\ locals' = [locals EXCEPT !.normalized_intro_path =
                                      Some(NormalizedIntroFile)]
                    /\ pc' = "normalize_outro"
                    /\ UNCHANGED <<result, outcome>>
               ELSE /\ Finish(HandleException("Failed to normalize video intro"))
                    /\ UNCHANGED fs
    /\ UNCHANGED <<assets, video_highlights, calls, clock, call, fresh>>
    /\ UNCHANGED mergeVars
    /\ UNCHANGED <<clipVars, escapeVars, pairVars, backendVars>>

\* _normalize_intro_outro, the outro
NormalizeOutro(ok) ==
    /\ pc = "normalize_outro"
    /\ IF ~assets.outro
       THEN /\ ok
            /\ pc' = "manifest"
            /\ UNCHANGED <<fs, locals, log, result, outcome, in_flight>>
       ELSE /\ in_flight > 0
            /\ in_flight' = in_flight - 1
            /\ log' = Append(log, Done("normalize_outro", 0, ok))
            /\ IF ok
               THEN /\ fs' = [fs EXCEPT !.normalized_outro =
                                  Some(NormalizeParams(locals.main_clip_properties))]
                    /\ locals' = [locals EXCEPT !.normalized_outro_path =
                                      Some(NormalizedOutroFile)]
                    /\ pc' = "manifest"
                    /\ UNCHANGED <<result, outcome>>
               ELSE /\ Finish(HandleException("Failed to normalize video outro"))
                    /\ UNCHANGED fs
    /\ UNCHANGED <<assets, video_highlights, calls, clock, call, fresh>>
    /\ UNCHANGED mergeVars
    /\ UNCHANGED <<clipVars, escapeVars, pairVars, backendVars>>

\* a manifest that puts the outro before the main clips
ManifestLinesOutroFirst ==
    (IF locals.normalized_intro_path # None /\ fs.normalized_intro # None
     THEN <<NormalizedIntroFile>> ELSE <<>>)
    \o (IF locals.normalized_outro_path # None /\ fs.normalized_outro # None
        THEN <<NormalizedOutroFile>> ELSE <<>>)
    \o locals.clip_paths

\* the lines _create_concat_file_with_intro_outro writes, in order
ManifestLines ==
    (IF locals.normalized_intro_path # None /\ fs.normalized_intro # None
     THEN <<NormalizedIntroFile>> ELSE <<>>)
    \o locals.clip_paths
    \o (IF locals.normalized_outro_path # None /\ fs.normalized_outro # None
        THEN <<NormalizedOutroFile>> ELSE <<>>)

\* _create_concat_file_with_intro_outro, the writing of concat_list.txt
BuildManifest(ok) ==
    /\ pc = "manifest"
    /\ log' = Append(log, Done("manifest_write", 0, ok))
    /\ IF ok
       THEN /\ fs' = [fs EXCEPT !.concat_list = Some(ManifestLines)]
            /\ pc' = "stitch"
            /\ UNCHANGED <<locals, result, outcome>>
       ELSE /\ Finish(HandleException(OpenError("concat_list.txt")))
            /\ UNCHANGED fs
    /\ UNCHANGED <<assets, video_highlights, calls, clock, call, fresh>>
    /\ UNCHANGED in_flight
    /\ UNCHANGED mergeVars
    /\ UNCHANGED <<clipVars, escapeVars, pairVars, backendVars>>

\* what a run of ffmpeg over the manifest leaves at the output path: the
\* whole reel, nothing (it failed before opening the output), or a part
StitchOutcomes(manifest) ==
    {[ok |-> TRUE, wrote |-> Some(manifest)], [ok |-> FALSE, wrote |-> None]}
    \cup {[ok |-> FALSE, wrote |-> Some(SubSeq(manifest, 1, n))] :
              n \in 0..(Len(manifest) - 1)}

\* _stitch_clips: ffmpeg writes final_highlight.mp4 in place
Stitch(ffmpeg) ==
    /\ pc = "stitch"
    /\ in_flight > 0
    /\ in_flight' = in_flight - 1
    /\ log' = Append(log, Done("concat", 0, ffmpeg.ok))
    /\ fs' = IF ffmpeg.wrote = None THEN fs
             ELSE [fs EXCEPT !.final =
                       Some([mtime |-> clock, size |-> Len(ffmpeg.wrote[1]),
                             complete |-> ffmpeg.ok])]
    /\ IF ffmpeg.ok
       THEN /\ pc' = "cleanup"
            /\ UNCHANGED <<locals, result, outcome>>
       ELSE Finish(HandleException("Failed to stitch clips"))
    /\ fresh' = ffmpeg.ok
    /\ UNCHANGED <<assets, video_highlights, calls, clock, call>>
    /\ UNCHANGED mergeVars
    /\ UNCHANGED <<clipVars, escapeVars, pairVars, backendVars>>

\* a cleanup that leaves normalized_outro.mp4 behind
CleanupTargetsWithoutOutro == <<"temp_clips", "concat_list", "normalized_intro">>

\* the removals of _cleanup_temp_files, in order
CleanupTargets == <<"temp_clips", "concat_list", "normalized_intro", "normalized_outro">>

\* a cleanup that removes nothing
CleanupNothingRemoved(dir, fail_at) == dir

\* _cleanup_temp_files: the removal number fail_at raises (0: none does);
\* the removals before it are done, those after it are not attempted
CleanupTempFiles(dir, fail_at) ==
    [f \in DOMAIN dir |->
        IF \E j \in 1..Len(CleanupTargets) :
               CleanupTargets[j] = f /\ (fail_at = 0 \/ j < fail_at)
        THEN None ELSE dir[f]]

\* a cleanup whose failure reaches the handler of create_final_highlight
AfterCleanupRaising(fail_at, value) ==
    IF fail_at = 0 THEN Return(value)
    ELSE HandleException("[Errno 13] Permission denied")

\* except Exception as e: print(...) in _cleanup_temp_files: the call goes
\* on to build its response, whether or not a removal failed
AfterCleanup(fail_at, value) == Return(value)

\* cleanup and the response of a successful run
Cleanup(fail_at) ==
    /\ pc = "cleanup"
    /\ fail_at # 0 => fs[CleanupTargets[fail_at]] # None
    /\ fs' = CleanupTempFiles(fs, fail_at)
    /\ log' = Append(log, Done("cleanup", fail_at, fail_at = 0))
    /\ Finish(AfterCleanup(fail_at,
                           FreshResult(locals.non_overlapping_highlights,
                                       locals.clip_paths,
                                       locals.main_clip_properties)))
    /\ UNCHANGED <<assets, video_highlights, calls, clock, call, fresh>>
    /\ UNCHANGED in_flight
    /\ UNCHANGED mergeVars
    /\ UNCHANGED <<clipVars, escapeVars, pairVars, backendVars>>

(***************************************************************************)
(* The surroundings of the pipeline: time passes, and the /highlights      *)
(* endpoint rewrites clips.json.                                           *)
(***************************************************************************)
Tick ==
    /\ clock < MaxClock
    /\ clock' = clock + 1
    /\ UNCHANGED <<fs, assets, video_highlights, calls, pc, call, locals, log, result, outcome, fresh>>
    /\ UNCHANGED in_flight
    /\ UNCHANGED mergeVars
    /\ UNCHANGED <<clipVars, escapeVars, pairVars, backendVars>>

WriteClipsJson ==
    /\ fs' = [fs EXCEPT !.clips_json = Some([mtime |-> clock])]
    /\ fresh' = FALSE
    /\ UNCHANGED <<assets, video_highlights, calls, clock, pc, call, locals, log, result, outcome>>
    /\ UNCHANGED in_flight
    /\ UNCHANGED mergeVars
    /\ UNCHANGED <<clipVars, escapeVars, pairVars, backendVars>>

RunInit ==
    /\ \E present \in BOOLEAN :
         fs = [EmptyDir EXCEPT !.clips_json =
                                   IF present THEN Some([mtime |-> 0]) ELSE None,
                               !.video = Some([mtime |-> 0])]
    /\ assets \in [intro : BOOLEAN, outro : BOOLEAN]
    /\ clock = 0
    /\ pc = "idle"
    /\ video_highlights \in RunInputs
    /\ call = NoCall
    /\ locals = NoLocals
    /\ log = <<>>
    /\ result = None
    /\ outcome = "none"
    /\ fresh = FALSE
    /\ calls = 0
    /\ in_flight = 0

\* the lists a caller passes for the directory: the video's highlights, or none
CallInputs == {video_highlights, <<>>}

\* a caller invokes create_final_highlight(highlights, video_path, output_dir, overwrite)
CallCreateFinalHighlight ==
    \E hs \in CallInputs, overwrite \in BOOLEAN, mkdir_ok \in BOOLEAN :
        Begin(hs, overwrite, mkdir_ok)

\* _stitch_clips reads the manifest that _create_concat_file_with_intro_outro wrote
StitchClips ==
    /\ pc = "stitch"
    /\ \E ffmpeg \in StitchOutcomes(fs.concat_list[1]) : Stitch(ffmpeg)

RunNext ==
    \/ CallCreateFinalHighlight
    \/ RunInExecutor
    \/ \E ok \in BOOLEAN : ExtractClip(ok)
    \/ \E properties \in {None, Some(ProbedProperties)} : PropertyProbe(properties)
    \/ \E ok \in BOOLEAN : NormalizeIntro(ok)
    \/ \E ok \in BOOLEAN : NormalizeOutro(ok)
    \/ \E ok \in BOOLEAN : BuildManifest(ok)
    \/ StitchClips
    \/ \E fail_at \in 0..Len(CleanupTargets) : Cleanup(fail_at)
    \/ Tick
    \/ WriteClipsJson

MergeIdle ==
    /\ heap = <<>>
    /\ highlights = <<>>
    /\ non_overlapping = <<>>
    /\ again = <<>>
    /\ before = <<>>
    /\ mpc = "off"

RunIdle ==
    /\ fs = EmptyDir
    /\ assets = [intro |-> FALSE, outro |-> FALSE]
    /\ clock = 0
    /\ pc = "off"
    /\ video_highlights = <<>>
    /\ call = NoCall
    /\ locals = NoLocals
    /\ log = <<>>
    /\ result = None
    /\ outcome = "none"
    /\ fresh = FALSE
    /\ calls = 0
    /\ in_flight = 0

(***************************************************************************)
(* The two clip extractors: extract_clip of app/clip_extractor.py, used by *)
(* the /extract endpoint, and the loop body of _extract_individual_clips.  *)
(***************************************************************************)
BufferSeconds == 5

\* an extract_clip that does not clamp the buffered start at 0
BufferedCutUnclamped(start_time, end_time) ==
    LET buffered_start_time == start_time - BufferSeconds
        buffered_end_time == end_time + BufferSeconds
    IN  [ss |-> buffered_start_time,
         t |-> buffered_end_time - buffered_start_time]

\* the ss and t extract_clip hands to ffmpeg.input
BufferedCut(start_time, end_time) ==
    LET buffered_start_time == Max(0, start_time - BufferSeconds)
        buffered_end_time == end_time + BufferSeconds
    IN  [ss |-> buffered_start_time,
         t |-> buffered_end_time - buffered_start_time]

\* the ss and t _extract_individual_clips hands to ffmpeg.input
BatchCut(highlight) ==
    [ss |-> highlight.start_time,
     t |-> highlight.end_time - highlight.start_time]

\* the highlights that pass _validate_highlight: 0 <= start_time < end_time
ClipRequests ==
    {r \in [start_time : 0..MaxClipTime, end_time : 0..MaxClipTime] :
        r.start_time < r.end_time}

ClipInit ==
    /\ request \in ClipRequests
    /\ ffmpeg_input = None
    /\ epc = "input"

\* extract_clip(video_path, start_time, end_time, output_path); ffmpeg.run
\* either succeeds or raises
CallExtractClip(ok) ==
    /\ epc = "input"
    /\ ffmpeg_input' = Some(BufferedCut(request.start_time, request.end_time))
    /\ epc' = IF ok THEN "extract_clip returned" ELSE "extract_clip raised"
    /\ UNCHANGED request
    /\ UNCHANGED <<mergeVars, runVars, escapeVars, pairVars, backendVars>>

\* the body of the loop of _extract_individual_clips for one highlight
CallExtractIndividualClip(ok) ==
    /\ epc = "input"
    /\ ffmpeg_input' = Some(BatchCut(request))
    /\ epc' = IF ok THEN "batch appended" ELSE "batch skipped"
    /\ UNCHANGED request
    /\ UNCHANGED <<mergeVars, runVars, escapeVars, pairVars, backendVars>>

ClipNext ==
    \/ \E ok \in BOOLEAN : CallExtractClip(ok)
    \/ \E ok \in BOOLEAN : CallExtractIndividualClip(ok)

ClipIdle ==
    /\ request = [start_time |-> 0, end_time |-> 0]
    /\ ffmpeg_input = None
    /\ epc = "off"

(***************************************************************************)
(* The lines of concat_list.txt.  A string is a sequence of characters;    *)
(* "file '" and the closing quote with the newline are single tokens.      *)
(***************************************************************************)
Backslash == "\\"
Colon == ":"

\* str.replace(old, new) for a single character old
RECURSIVE Replace(_, _, _)
Replace(str, old, new) ==
    IF str = <<>> THEN <<>>
    ELSE (IF Head(str) = old THEN new ELSE <<Head(str)>>)
         \o Replace(Tail(str), old, new)

\* an escaping that replaces the colons first and the backslashes second
EscapedColonsFirst(path) ==
    Replace(Replace(path, Colon, <<Backslash, Colon>>),
            Backslash, <<Backslash, Backslash>>)

\* abs_path.replace("\\", "\\\\").replace(":", "\\:")
Escaped(path) ==
    Replace(Replace(path, Backslash, <<Backslash, Backslash>>),
            Colon, <<Backslash, Colon>>)

\* f"file '{escaped_path}'\n"
ManifestLine(path) == <<"file '">> \o Escaped(path) \o <<"'\n">>

PathCharacters == {Backslash, Colon, "a"}

Paths == UNION {[1..n -> PathCharacters] : n \in 0..MaxPathLen}

EscapeInit ==
    /\ abs_path \in Paths
    /\ other_path \in Paths
    /\ lines = <<>>
    /\ wpc = "input"

\* f.write of the lines of the two paths
WriteManifestLines ==
    /\ wpc = "input"
    /\ lines' = <<ManifestLine(abs_path), ManifestLine(other_path)>>
    /\ wpc' = "written"
    /\ UNCHANGED <<abs_path, other_path>>
    /\ UNCHANGED <<mergeVars, runVars, clipVars, pairVars, backendVars>>

EscapeNext == WriteManifestLines

EscapeIdle ==
    /\ abs_path = <<>>
    /\ other_path = <<>>
    /\ lines = <<>>
    /\ wpc = "off"

(***************************************************************************)
(* Two calls of create_final_highlight running concurrently, each on its   *)
(* output directory output/<key>.  Every await is a point where the other  *)
(* call may run.  A file on disk carries the call that wrote it (by; 0 for *)
(* a file that was there at the start).  An absolute path is the key of    *)
(* the output directory and the name of the file below it.                 *)
(***************************************************************************)
Runs == {1, 2}
Keys == {"a", "b"}

\* os.path.join(output_dir, name)
Join(output_dir, name) == [dir |-> output_dir, name |-> name]

\* the merged intervals of the video both calls work on
PairIntervals ==
    <<[start_time |-> 0, end_time |-> 1], [start_time |-> 1, end_time |-> 2]>>

\* a call that keeps its manifest at one place for all output directories
ConcatFilePathShared(output_dir) == Join("a", "concat_list")

\* concat_file_path = os.path.join(output_dir, "concat_list.txt")
ConcatFilePath(output_dir) == Join(output_dir, "concat_list")

\* the file at a path, None if there is none
ReadFile(d, path) == d[path.dir][path.name]

WriteFile(d, path, content) == [d EXCEPT ![path.dir][path.name] = Some(content)]

\* the clip files of the directory temp_clips of an output directory
ClipsIn(d, output_dir) ==
    IF d[output_dir].temp_clips = None THEN {} ELSE d[output_dir].temp_clips[1]

\* the clip file of that name in temp_clips, None if there is none
ReadClip(d, output_dir, clip_path) ==
    IF \E c \in ClipsIn(d, output_dir) : c.name = clip_path
    THEN Some(CHOOSE c \in ClipsIn(d, output_dir) : c.name = clip_path)
    ELSE None

\* ffmpeg writes the clip, replacing a file of the same name
WriteClip(d, output_dir, clip_path, r) ==
    [d EXCEPT ![output_dir].temp_clips =
        Some({c \in ClipsIn(d, output_dir) : c.name # clip_path}
             \cup {[name |-> clip_path, by |-> r]})]

NoRun(output_dir) ==
    [output_dir |-> output_dir, pc |-> "idle", overwrite |-> FALSE, k |-> 0,
     clip_paths |-> <<>>, main_clip_properties |-> None, result |-> None]

\* an output directory that holds the artifact of an earlier run and clips.json
CachedDir ==
    [EmptyDir EXCEPT !.final = Some([mtime |-> 0, by |-> 0, content |-> <<>>]),
                     !.clips_json = Some([mtime |-> 0])]

PairInit ==
    /\ disk \in [Keys -> {EmptyDir, CachedDir}]
    /\ disk0 = disk
    /\ \E output_dir \in [Runs -> Keys] : runs = [r \in Runs |-> NoRun(output_dir[r])]
    /\ touched = [r \in Runs |-> {}]
    /\ thread = 0

PairIdle ==
    /\ disk = [key \in Keys |-> EmptyDir]
    /\ disk0 = disk
    /\ runs = [r \in Runs |-> NoRun("a")]
    /\ touched = [r \in Runs |-> {}]
    /\ thread = 0

\* os.path.join(clips_dir, clip_filename), and the normalized files
EntryPath(output_dir, file) == [dir |-> output_dir, file |-> file]

\* the file a manifest entry names, None if there is none
ReadEntry(d, entry) ==
    IF entry.file.kind = "clip"
    THEN ReadClip(d, entry.dir, entry.file)
    ELSE d[entry.dir][entry.file.kind]

Touch(r, paths) == touched' = [touched EXCEPT ![r] = @ \cup paths]

\* the call up to the extraction loop
PairBegin(r, overwrite) ==
    /\ runs[r].pc = "idle"
    /\ thread = 0
    /\ LET output_dir == runs[r].output_dir
           final == ReadFile(disk, Join(output_dir, "final"))
           clips_json == ReadFile(disk, Join(output_dir, "clips_json"))
       IN  IF CacheHit(overwrite, IsCacheValid(final, clips_json))
           THEN /\ runs' = [runs EXCEPT ![r] =
                              [@ EXCEPT !.pc = "done", !.overwrite = overwrite,
                                        !.result = Some([success |-> TRUE,
                                                         already_exists |-> TRUE,
                                                         artifact |-> final[1]])]]
                /\ UNCHANGED <<disk, touched>>
           ELSE /\ disk' = [disk EXCEPT ![output_dir].temp_clips =
                                IF @ = None THEN Some({}) ELSE @]
                /\ Touch(r, {Join(output_dir, "temp_clips")})
                /\ runs' = [runs EXCEPT ![r] =
                              [@ EXCEPT !.pc = "extract", !.overwrite = overwrite,
                                        !.k = 1]]
    /\ UNCHANGED <<disk0, thread>>
    /\ UNCHANGED <<mergeVars, runVars, clipVars, escapeVars, backendVars>>

\* one iteration of the loop of _extract_individual_clips
PairExtractClip(r, ok) ==
    /\ runs[r].pc = "extract"
    /\ thread = 0
    /\ LET output_dir == runs[r].output_dir
           k == runs[r].k
           clip == ClipFile(k - 1, PairIntervals[k])
       IN  /\ ok => disk[output_dir].temp_clips # None
           /\ IF ok
              THEN /\ disk' = WriteClip(disk, output_dir, clip, r)
                   /\ Touch(r, {Join(output_dir, "temp_clips")})
              ELSE UNCHANGED <<disk, touched>>
           /\ runs' = [runs EXCEPT ![r] =
                         [@ EXCEPT !.clip_paths =
                                       IF ok THEN Append(@, EntryPath(output_dir, clip))
                                       ELSE @,
                                   !.k = k + 1,
                                   !.pc = AfterExtraction(k, Len(PairIntervals), ok)]]
    /\ UNCHANGED <<disk0, thread>>
    /\ UNCHANGED <<mergeVars, runVars, clipVars, escapeVars, backendVars>>

\* _get_video_properties(clip_paths[0]) is an ordinary call: ffmpeg.probe
\* starts ffprobe and waits for it on the thread of the event loop
PairProbeStart(r) ==
    /\ runs[r].pc = "probe"
    /\ thread = 0
    /\ ~NoClipsExtracted(runs[r].clip_paths)
    /\ thread' = r
    /\ runs' = [runs EXCEPT ![r] = [@ EXCEPT !.pc = "probing"]]
    /\ UNCHANGED <<disk, disk0, touched>>
    /\ UNCHANGED <<mergeVars, runVars, clipVars, escapeVars, backendVars>>

\* the check of the extracted clips, and the return of ffmpeg.probe
PairPropertyProbe(r) ==
    /\ IF runs[r].pc = "probe"
       THEN /\ thread = 0
            /\ NoClipsExtracted(runs[r].clip_paths)
            /\ runs' = [runs EXCEPT ![r] =
                          [@ EXCEPT !.pc = "done",
                                    !.result = Some(Failure("Failed to extract any clips",
                                                            "No clips were successfully extracted"))]]
            /\ UNCHANGED thread
       ELSE /\ runs[r].pc = "probing"
            /\ thread = r
            /\ runs' = [runs EXCEPT ![r] =
                          [@ EXCEPT !.pc = "normalized_intro",
                                    !.main_clip_properties =
                                        ReadEntry(disk, runs[r].clip_paths[1])]]
            /\ thread' = 0
    /\ UNCHANGED <<disk, disk0, touched>>
    /\ UNCHANGED <<mergeVars, runVars, clipVars, escapeVars, backendVars>>

\* _normalize_video_file for the intro (file = NormalizedIntroFile) and then
\* for the outro; both assets exist
PairNormalize(r, file) ==
    /\ runs[r].pc = file.kind
    /\ thread = 0
    /\ LET output_dir == runs[r].output_dir
       IN  /\ disk' = WriteFile(disk, Join(output_dir, file.kind),
                                [by |-> r, target |-> runs[r].main_clip_properties])
           /\ Touch(r, {Join(output_dir, file.kind)})
    /\ runs' = [runs EXCEPT ![r] =
                  [@ EXCEPT !.pc = IF file = NormalizedIntroFile
                                   THEN "normalized_outro" ELSE "manifest"]]
    /\ UNCHANGED <<disk0, thread>>
    /\ UNCHANGED <<mergeVars, runVars, clipVars, escapeVars, backendVars>>

\* _create_concat_file_with_intro_outro, the writing of concat_list.txt
PairBuildManifest(r) ==
    /\ runs[r].pc = "manifest"
    /\ thread = 0
    /\ LET output_dir == runs[r].output_dir
           exists(file) == ReadFile(disk, Join(output_dir, file.kind)) # None
           manifest_lines ==
               (IF exists(NormalizedIntroFile)
                THEN <<EntryPath(output_dir, NormalizedIntroFile)>> ELSE <<>>)
               \o runs[r].clip_paths
               \o (IF exists(NormalizedOutroFile)
                   THEN <<EntryPath(output_dir, NormalizedOutroFile)>> ELSE <<>>)
       IN  /\ disk' = WriteFile(disk, ConcatFilePath(output_dir),
                                [by |-> r, lines |-> manifest_lines])
           /\ Touch(r, {ConcatFilePath(output_dir)})
    /\ runs' = [runs EXCEPT ![r] = [@ EXCEPT !.pc = "stitch"]]
    /\ UNCHANGED <<disk0, thread>>
    /\ UNCHANGED <<mergeVars, runVars, clipVars, escapeVars, backendVars>>

\* _stitch_clips: ffmpeg reads the manifest and the files it lists, and
\* fails when one of them is missing
PairStitch(r, ok) ==
    /\ runs[r].pc = "stitch"
    /\ thread = 0
    /\ LET output_dir == runs[r].output_dir
           manifest == ReadFile(disk, ConcatFilePath(output_dir))
           readable ==
               /\ manifest # None
               /\ \A n \in 1..Len(manifest[1].lines) :
                      ReadEntry(disk, manifest[1].lines[n]) # None
       IN  /\ ok => readable
           /\ IF ok
              THEN /\ disk' = WriteFile(disk, Join(output_dir, "final"),
                                  [mtime |-> 0, by |-> r,
                                   content |->
                                       [n \in 1..Len(manifest[1].lines) |->
                                           ReadEntry(disk, manifest[1].lines[n])[1]]])
                   /\ Touch(r, {Join(output_dir, "final")})
                   /\ runs' = [runs EXCEPT ![r] = [@ EXCEPT !.pc = "cleanup"]]
              ELSE /\ runs' = [runs EXCEPT ![r] =
                                 [@ EXCEPT !.pc = "done",
                                           !.result =
                                               HandleException("Failed to stitch clips").result]]
                   /\ UNCHANGED <<disk, touched>>
    /\ UNCHANGED <<disk0, thread>>
    /\ UNCHANGED <<mergeVars, runVars, clipVars, escapeVars, backendVars>>

\* _cleanup_temp_files and the response of a successful run
PairCleanup(r) ==
    /\ runs[r].pc = "cleanup"
    /\ thread = 0
    /\ LET output_dir == runs[r].output_dir
       IN  /\ disk' = [disk EXCEPT ![output_dir] = CleanupTempFiles(@, 0)]
           /\ Touch(r, {Join(output_dir, CleanupTargets[j]) :
                            j \in 1..Len(CleanupTargets)})
    /\ runs' = [runs EXCEPT ![r] =
                  [@ EXCEPT !.pc = "done",
                            !.result = Some([success |-> TRUE,
                                             clips_used |-> Len(runs[r].clip_paths),
                                             video_properties |->
                                                 runs[r].main_clip_properties])]]
    /\ UNCHANGED <<disk0, thread>>
    /\ UNCHANGED <<mergeVars, runVars, clipVars, escapeVars, backendVars>>

PairNext ==
    \E r \in Runs :
        \/ \E overwrite \in BOOLEAN : PairBegin(r, overwrite)
        \/ \E ok \in BOOLEAN : PairExtractClip(r, ok)
        \/ PairProbeStart(r)
        \/ PairPropertyProbe(r)
        \/ \E file \in {NormalizedIntroFile, NormalizedOutroFile} : PairNormalize(r, file)
        \/ PairBuildManifest(r)
        \/ \E ok \in BOOLEAN : PairStitch(r, ok)
        \/ PairCleanup(r)

(***************************************************************************)
(* The websocket ConnectionManager of backend/app/core/websocket.py.       *)
(*   dict  : a function from the keys to Optional values, None for a key   *)
(*           that is absent                                                *)
(*   set   : a set; an iteration over it keeps a reference to the object   *)
(*           and the size the object had when the iteration began          *)
(***************************************************************************)
Clients == {"c1", "c2", "c3"}

VideoIds == {"v1", "v2"}

MaxVisits == 3    \* most client ids one iteration over a changed set yields

NoBroadcast ==
    [state |-> "idle", video |-> None, used |-> 0, attached |-> FALSE,
     members |-> {}, visited |-> {}, yields |-> 0,
     sent |-> [c \in Clients |-> 0], steady |-> {}, scrambled |-> FALSE]

NoOperation == "other"

ManagerInit ==
    /\ active_connections = {}
    /\ video_subscribers = [v \in VideoIds |-> None]
    /\ broadcast = NoBroadcast
    /\ last_op = NoOperation

WsIdle == ManagerInit

\* self.video_subscribers[video_id], for a key that may be absent
Subscribers(subscribers, video_id) ==
    IF subscribers[video_id] = None THEN {} ELSE subscribers[video_id][1]

RemovedKeepingKey(subscribers, video_id, client_id) ==
    [subscribers EXCEPT
        ![video_id] = Some(Subscribers(subscribers, video_id) \ {client_id})]

\* the client leaves the set of a key that is present; an empty set is deleted
Removed(subscribers, video_id, client_id) ==
    LET rest == Subscribers(subscribers, video_id) \ {client_id}
    IN  [subscribers EXCEPT ![video_id] = IF rest = {} THEN None ELSE Some(rest)]

\* The broadcast as a change of the manager leaves it.  A suspended broadcast
\* iterates the set object of its video: the object changes with the dict
\* entry while it is the entry's value, and stays empty once the key has been
\* deleted.  gone are the clients that left the video or the connections.
Observed(b, after, gone) ==
    IF b.state # "suspended" THEN b
    ELSE LET now == IF b.attached THEN Subscribers(after, b.video[1]) ELSE b.members
         IN  [b EXCEPT !.members = now,
                       !.attached = b.attached /\ after[b.video[1]] # None,
                       !.scrambled = b.scrambled \/ now # b.members,
                       !.steady = b.steady \ gone]

Delivered(b) == {c \in Clients : b.sent[c] > 0}

\* connect, after the awaited websocket.accept()
Connect(client_id) ==
    /\ broadcast.state \in {"idle", "suspended"}
    /\ active_connections' = active_connections \cup {client_id}
    /\ last_op' = "other"
    /\ UNCHANGED <<video_subscribers, broadcast>>
    /\ UNCHANGED <<pipelineVars, taskVars, reelVars, selectVars>>

Disconnect(client_id) ==
    /\ broadcast.state \in {"idle", "suspended"}
    /\ active_connections' = active_connections \ {client_id}
    /\ video_subscribers' =
           [v \in VideoIds |->
               IF client_id \in Subscribers(video_subscribers, v)
               THEN Removed(video_subscribers, v, client_id)[v]
               ELSE video_subscribers[v]]
    /\ broadcast' = Observed(broadcast, video_subscribers', {client_id})
    /\ last_op' = IF \E v \in VideoIds : client_id \in Subscribers(video_subscribers, v)
                   THEN "left" ELSE "other"
    /\ UNCHANGED <<pipelineVars, taskVars, reelVars, selectVars>>

subscribe_to_video(client_id, video_id) ==
    /\ broadcast.state \in {"idle", "suspended"}
    /\ video_subscribers' =
           [video_subscribers EXCEPT
               ![video_id] = Some(Subscribers(video_subscribers, video_id)
                                      \cup {client_id})]
    /\ broadcast' = Observed(broadcast, video_subscribers', {})
    /\ last_op' = "other"
    /\ UNCHANGED active_connections
    /\ UNCHANGED <<pipelineVars, taskVars, reelVars, selectVars>>

unsubscribe_from_video(client_id, video_id) ==
    /\ broadcast.state \in {"idle", "suspended"}
    /\ video_subscribers' =
           IF video_subscribers[video_id] = None THEN video_subscribers
           ELSE Removed(video_subscribers, video_id, client_id)
    /\ broadcast' = Observed(broadcast, video_subscribers',
                             IF broadcast.video = Some(video_id)
                             THEN {client_id} ELSE {})
    /\ last_op' = IF client_id \in Subscribers(video_subscribers, video_id)
                   THEN "left" ELSE "other"
    /\ UNCHANGED active_connections
    /\ UNCHANGED <<pipelineVars, taskVars, reelVars, selectVars>>

\* broadcast_to_video up to the creation of the iterator over the live set
BroadcastStart(video_id) ==
    /\ broadcast.state = "idle"
    /\ broadcast' =
           IF video_subscribers[video_id] = None
           THEN [NoBroadcast EXCEPT !.state = "completed", !.video = Some(video_id)]
           ELSE [state |-> "running", video |-> Some(video_id),
                 used |-> Cardinality(Subscribers(video_subscribers, video_id)),
                 attached |-> TRUE,
                 members |-> Subscribers(video_subscribers, video_id),
                 visited |-> {}, yields |-> 0, sent |-> [c \in Clients |-> 0],
                 steady |-> Subscribers(video_subscribers, video_id)
                                \cap active_connections,
                 scrambled |-> FALSE]
    /\ UNCHANGED <<active_connections, video_subscribers, last_op>>
    /\ UNCHANGED <<pipelineVars, taskVars, reelVars, selectVars>>

\* One turn of the for loop: the iterator's next(), then send_json up to its
\* await.  next() raises RuntimeError when the set's size differs from the
\* size at the start; otherwise it yields by table position, which after a
\* change of the set may be any element, seen before or not, or none.
BroadcastNext ==
    /\ broadcast.state = "running"
    /\ IF Cardinality(broadcast.members) # broadcast.used
       THEN broadcast' = [broadcast EXCEPT !.state = "raised"]
       ELSE \/ /\ broadcast.scrambled \/ broadcast.members \subseteq broadcast.visited
               /\ broadcast' = [broadcast EXCEPT !.state = "completed"]
            \/ /\ broadcast.yields < MaxVisits
               /\ \E client_id \in IF broadcast.scrambled THEN broadcast.members
                                   ELSE broadcast.members \ broadcast.visited :
                      broadcast' =
                          IF client_id \in active_connections
                          THEN [broadcast EXCEPT
                                   !.visited = @ \cup {client_id},
                                   !.yields = @ + 1,
                                   !.sent[client_id] = @ + 1,
                                   !.state = "suspended"]
                          ELSE [broadcast EXCEPT
                                   !.visited = @ \cup {client_id},
                                   !.yields = @ + 1]
    /\ UNCHANGED <<active_connections, video_subscribers, last_op>>
    /\ UNCHANGED <<pipelineVars, taskVars, reelVars, selectVars>>

\* the awaited websocket send_json returns
BroadcastResume ==
    /\ broadcast.state = "suspended"
    /\ broadcast' = [broadcast EXCEPT !.state = "running"]
    /\ UNCHANGED <<active_connections, video_subscribers, last_op>>
    /\ UNCHANGED <<pipelineVars, taskVars, reelVars, selectVars>>

\* broadcast_to_video returns or raises to its caller, which goes on at once
BroadcastReturn ==
    /\ broadcast.state \in {"completed", "raised"}
    /\ broadcast' = NoBroadcast
    /\ UNCHANGED <<active_connections, video_subscribers, last_op>>
    /\ UNCHANGED <<pipelineVars, taskVars, reelVars, selectVars>>

WsNext ==
    \/ \E client_id \in Clients : Connect(client_id)
    \/ \E client_id \in Clients : Disconnect(client_id)
    \/ \E client_id \in Clients, video_id \in VideoIds :
           subscribe_to_video(client_id, video_id)
    \/ \E client_id \in Clients, video_id \in VideoIds :
           unsubscribe_from_video(client_id, video_id)
    \/ \E video_id \in VideoIds : BroadcastStart(video_id)
    \/ BroadcastNext
    \/ BroadcastResume
    \/ BroadcastReturn

(***************************************************************************)
(* process_video_task of backend/app/tasks/video_tasks.py.  A row of the   *)
(* videos table is what has been committed; the task works on its own      *)
(* object and writes it with db.commit().                                  *)
(***************************************************************************)
StageStatus == <<"downloading", "transcribing", "analyzing", "completed">>

StageProgressLowAnalyze == <<10, 30, 20, 100>>

StageProgress == <<10, 30, 60, 100>>

PendingRow == [status |-> "pending", processing_progress |-> 0, error_message |-> None]

NoTask == [pc |-> "start", stage |-> 1, video |-> None, audio |-> FALSE]

\* a video row as an upload or a from-url request committed it, or no row
TaskInit ==
    /\ db_videos \in [VideoIds -> {None, Some(PendingRow)}]
    /\ tasks = [v \in VideoIds |-> NoTask]
    /\ notifications = [v \in VideoIds |-> <<>>]

\* except Exception (line 99): the handler takes over, or, with video not
\* yet bound, fails itself and the task ends with that error
Handler(task) ==
    IF task.video = None THEN [task EXCEPT !.pc = "raised"]
    ELSE [task EXCEPT !.pc = "handler"]

\* select the row; a task for a row that is not there returns at once
TaskLoad(video_id, ok) ==
    /\ tasks[video_id].pc = "start"
    /\ tasks' = [tasks EXCEPT
                    ![video_id] =
                        IF ~ok THEN Handler(@)
                        ELSE IF db_videos[video_id] = None THEN [@ EXCEPT !.pc = "done"]
                        ELSE [@ EXCEPT !.pc = "commit", !.video = db_videos[video_id]]]
    /\ UNCHANGED <<db_videos, notifications>>
    /\ UNCHANGED <<pipelineVars, wsVars, reelVars, selectVars>>

\* video.status = ..., video.processing_progress = ..., await db.commit()
TaskCommit(video_id, ok) ==
    /\ tasks[video_id].pc = "commit"
    /\ LET stage == tasks[video_id].stage
           video == [tasks[video_id].video[1] EXCEPT
                        !.status = StageStatus[stage],
                        !.processing_progress = StageProgress[stage]]
       IN  /\ tasks' = [tasks EXCEPT
                           ![video_id] =
                               IF ok THEN [@ EXCEPT !.pc = "notify", !.video = Some(video)]
                               ELSE Handler([@ EXCEPT !.video = Some(video)])]
           /\ db_videos' = IF ok THEN [db_videos EXCEPT ![video_id] = Some(video)]
                           ELSE db_videos
    /\ UNCHANGED notifications
    /\ UNCHANGED <<pipelineVars, wsVars, reelVars, selectVars>>

\* await notify_video_progress(...) or, at the last stage,
\* await notify_video_completed(...); the broadcast may raise
TaskNotify(video_id, ok) ==
    /\ tasks[video_id].pc = "notify"
    /\ LET stage == tasks[video_id].stage
           note == [type |-> IF stage = 4 THEN "completed" ELSE "progress",
                    status |-> StageStatus[stage],
                    progress |-> StageProgress[stage],
                    whole |-> ok]
       IN  /\ notifications' = [notifications EXCEPT ![video_id] = Append(@, note)]
           /\ tasks' = [tasks EXCEPT
                           ![video_id] =
                               IF ~ok THEN Handler(@)
                               ELSE IF stage = 4 THEN [@ EXCEPT !.pc = "remove_audio"]
                               ELSE [@ EXCEPT !.pc = "work"]]
    /\ UNCHANGED db_videos
    /\ UNCHANGED <<pipelineVars, wsVars, reelVars, selectVars>>

\* the work of a stage: download or probe the video; extract the audio and
\* transcribe it; analyze the transcript and add the highlights
TaskWork(video_id, ok, wrote_audio) ==
    /\ tasks[video_id].pc = "work"
    /\ LET stage == tasks[video_id].stage
           audio == IF stage = 2 THEN ok \/ wrote_audio ELSE tasks[video_id].audio
       IN  tasks' = [tasks EXCEPT
                        ![video_id] =
                            IF ok THEN [@ EXCEPT !.pc = "commit", !.stage = stage + 1,
                                                 !.audio = audio]
                            ELSE Handler([@ EXCEPT !.audio = audio])]
    /\ UNCHANGED <<db_videos, notifications>>
    /\ UNCHANGED <<pipelineVars, wsVars, reelVars, selectVars>>

\* if os.path.exists(audio_path): os.remove(audio_path)
TaskRemoveAudio(video_id, ok) ==
    /\ tasks[video_id].pc = "remove_audio"
    /\ tasks' = [tasks EXCEPT
                    ![video_id] =
                        IF ~@.audio THEN [@ EXCEPT !.pc = "done"]
                        ELSE IF ok THEN [@ EXCEPT !.pc = "done", !.audio = FALSE]
                        ELSE Handler(@)]
    /\ UNCHANGED <<db_videos, notifications>>
    /\ UNCHANGED <<pipelineVars, wsVars, reelVars, selectVars>>

\* The handler: video.status = "failed", await db.commit().  After a commit
\* that failed the session has rolled back, so the progress written is the
\* one of the object or the one of the row.
TaskHandlerCommit(video_id, ok, progress) ==
    /\ tasks[video_id].pc = "handler"
    /\ progress \in {tasks[video_id].video[1].processing_progress,
                     db_videos[video_id][1].processing_progress}
    /\ LET video == [tasks[video_id].video[1] EXCEPT
                        !.status = "failed",
                        !.processing_progress = progress,
                        !.error_message = Some("error")]
       IN  /\ tasks' = [tasks EXCEPT
                           ![video_id] =
                               IF ok THEN [@ EXCEPT !.pc = "notify_error", !.video = Some(video)]
                               ELSE [@ EXCEPT !.pc = "raised", !.video = Some(video)]]
           /\ db_videos' = IF ok THEN [db_videos EXCEPT ![video_id] = Some(video)]
                           ELSE db_videos
    /\ UNCHANGED notifications
    /\ UNCHANGED <<pipelineVars, wsVars, reelVars, selectVars>>

\* the handler: await notify_video_error(...)
TaskNotifyError(video_id, ok) ==
    /\ tasks[video_id].pc = "notify_error"
    /\ notifications' =
           [notifications EXCEPT
               ![video_id] = Append(@, [type |-> "error", status |-> "failed",
                                        progress |-> tasks[video_id].video[1].processing_progress,
                                        whole |-> ok])]
    /\ tasks' = [tasks EXCEPT ![video_id].pc = IF ok THEN "done" ELSE "raised"]
    /\ UNCHANGED db_videos
    /\ UNCHANGED <<pipelineVars, wsVars, reelVars, selectVars>>

TaskNext ==
    \E video_id \in VideoIds :
        \/ \E ok \in BOOLEAN : TaskLoad(video_id, ok)
        \/ \E ok \in BOOLEAN : TaskCommit(video_id, ok)
        \/ \E ok \in BOOLEAN : TaskNotify(video_id, ok)
        \/ \E ok \in BOOLEAN, wrote_audio \in BOOLEAN : TaskWork(video_id, ok, wrote_audio)
        \/ \E ok \in BOOLEAN : TaskRemoveAudio(video_id, ok)
        \/ \E ok \in BOOLEAN, progress \in {0, 10, 30, 60, 100} :
               TaskHandlerCommit(video_id, ok, progress)
        \/ \E ok \in BOOLEAN : TaskNotifyError(video_id, ok)

(***************************************************************************)
(* generate_highlight_reel_task of backend/app/tasks/video_tasks.py.       *)
(* The selected highlights are the query's rows in order_index order, each *)
(* given by its duration; a clip is named by the index of its highlight.   *)
(***************************************************************************)
MaxSelected == 3          \* most highlights selected for a reel
MaxHighlightSeconds == 3  \* longest highlight, in seconds
MaxReelSeconds == 3       \* largest max_duration, in seconds

RECURSIVE Lists(_, _)
Lists(S, n) ==
    IF n = 0 THEN {<<>>}
    ELSE Lists(S, n - 1) \cup {Append(l, x) : l \in {m \in Lists(S, n - 1) : Len(m) = n - 1}, x \in S}

ReelInit ==
    \E selected \in Lists(1..MaxHighlightSeconds, MaxSelected),
       max_duration \in 1..MaxReelSeconds, include_transitions \in BOOLEAN :
        reel = [pc |-> "select", highlights |-> selected, max_duration |-> max_duration,
                transition_type |-> IF include_transitions THEN "fade" ELSE "none",
                clip_paths |-> <<>>, total_duration |-> 0, concatenated |-> None]

\* the query has returned: an empty selection is an error
ReelSelect ==
    /\ reel.pc = "select"
    /\ reel' = [reel EXCEPT !.pc = IF reel.highlights = <<>> THEN "failed" ELSE "loop"]
    /\ UNCHANGED <<pipelineVars, wsVars, taskVars, selectVars>>

\* one turn of the extraction loop, or its end
ReelExtract(ok) ==
    /\ reel.pc = "loop"
    /\ LET idx == Len(reel.clip_paths) + 1
       IN  reel' =
               IF idx > Len(reel.highlights) THEN [reel EXCEPT !.pc = "concat"]
               ELSE IF reel.total_duration + reel.highlights[idx] > reel.max_duration
               THEN [reel EXCEPT !.pc = "concat"]
               ELSE IF ok
               THEN [reel EXCEPT !.clip_paths = Append(@, idx),
                                 !.total_duration = @ + reel.highlights[idx]]
               ELSE [reel EXCEPT !.pc = "failed"]
    /\ UNCHANGED <<pipelineVars, wsVars, taskVars, selectVars>>

\* processor.concatenate_clips(clip_paths, ...): with no clip there is no
\* stream to write (streams[0]) and nothing for the concat demuxer to read
ReelConcatenate(ok) ==
    /\ reel.pc = "concat"
    /\ reel' = [reel EXCEPT
                   !.concatenated = Some(reel.clip_paths),
                   !.pc = IF ok /\ reel.clip_paths # <<>> THEN "thumbnail" ELSE "failed"]
    /\ UNCHANGED <<pipelineVars, wsVars, taskVars, selectVars>>

\* the thumbnail, the removal of the clips and the last notifications
ReelFinish(ok) ==
    /\ reel.pc = "thumbnail"
    /\ reel' = [reel EXCEPT !.pc = IF ok THEN "done" ELSE "failed"]
    /\ UNCHANGED <<pipelineVars, wsVars, taskVars, selectVars>>

ReelNext ==
    \/ ReelSelect
    \/ \E ok \in BOOLEAN : ReelExtract(ok)
    \/ \E ok \in BOOLEAN : ReelConcatenate(ok)
    \/ \E ok \in BOOLEAN : ReelFinish(ok)

(***************************************************************************)
(* auto_select_highlights of backend/app/api/highlights.py.  The rows of   *)
(* the video's highlights are kept by id; the query returns the ids in     *)
(* descending order of score.                                              *)
(***************************************************************************)
MaxRows == 3            \* most highlights of the video
MaxScore == 3           \* highest score of a highlight
MaxRowSeconds == 2      \* longest highlight, in seconds
MaxTargetSeconds == 3   \* largest target_duration, in seconds

HighlightRows ==
    [score : 1..MaxScore, duration : 1..MaxRowSeconds, is_included : BOOLEAN]

RECURSIVE Orderings(_)
Orderings(S) ==
    IF S = {} THEN {<<>>}
    ELSE UNION {{<<x>> \o p : p \in Orderings(S \ {x})} : x \in S}

\* order_by(Highlight.score.desc()): any order of the ids by falling score
ByScoreDescending(rows) ==
    {p \in Orderings(DOMAIN rows) :
        \A i \in 1..Len(p), j \in 1..Len(p) :
            i < j => rows[p[i]].score >= rows[p[j]].score}

SelectInit ==
    \E n \in 0..MaxRows :
        \E rows \in [1..n -> HighlightRows],
           target_duration \in 1..MaxTargetSeconds, min_score \in 1..MaxScore :
            selection = [pc |-> "query", db |-> rows,
                         target_duration |-> target_duration, min_score |-> min_score,
                         highlights |-> <<>>, objects |-> rows, next |-> 1,
                         selected_highlights |-> <<>>, selected_duration |-> 0]

\* the select; no row is a 404
SelectQuery ==
    /\ selection.pc = "query"
    /\ \E ordered \in ByScoreDescending(selection.db) :
           selection' = [selection EXCEPT
                            !.highlights = ordered,
                            !.pc = IF ordered = <<>> THEN "not_found" ELSE "loop"]
    /\ UNCHANGED <<pipelineVars, wsVars, taskVars, reelVars>>

\* one turn of the loop over the rows, or its end
SelectStep ==
    /\ selection.pc = "loop"
    /\ LET i == selection.next
       IN  selection' =
               IF i > Len(selection.highlights) THEN [selection EXCEPT !.pc = "commit"]
               ELSE LET id == selection.highlights[i]
                        highlight == selection.objects[id]
                    IN  IF highlight.score < selection.min_score
                        THEN [selection EXCEPT !.pc = "commit"]
                        ELSE IF selection.selected_duration + highlight.duration
                                    <= selection.target_duration
                        THEN [selection EXCEPT
                                 !.objects[id].is_included = TRUE,
                                 !.selected_highlights = Append(@, id),
                                 !.selected_duration = @ + highlight.duration,
                                 !.next = i + 1]
                        ELSE [selection EXCEPT
                                 !.objects[id].is_included = FALSE,
                                 !.next = i + 1]
    /\ UNCHANGED <<pipelineVars, wsVars, taskVars, reelVars>>

\* await db.commit() and the response
SelectCommit ==
    /\ selection.pc = "commit"
    /\ selection' = [selection EXCEPT !.db = selection.objects, !.pc = "returned"]
    /\ UNCHANGED <<pipelineVars, wsVars, taskVars, reelVars>>

SelectNext ==
    \/ SelectQuery
    \/ SelectStep
    \/ SelectCommit

TaskIdle == db_videos = <<>> /\ tasks = <<>> /\ notifications = <<>>

ReelIdle == reel = <<>>

SelectIdle == selection = <<>>

BackendIdle == WsIdle /\ TaskIdle /\ ReelIdle /\ SelectIdle

\* the pipeline on one output directory
Init == RunInit /\ MergeIdle /\ ClipIdle /\ EscapeIdle /\ PairIdle /\ BackendIdle

Next == RunNext

Spec == Init /\ [][Next]_vars

(***************************************************************************)
(* Properties of the merger.                                               *)
(***************************************************************************)
merged == Deref(heap, non_overlapping)

Range(seq) == {seq[k] : k \in 1..Len(seq)}

\* C1: the output of _detect_overlaps is sorted by start_time and pairwise
\* non-overlapping: for all i < j, out[i].end_time <= out[j].start_time.
C1_SortedDisjoint ==
    mpc # "input" =>
        \A i, j \in 1..Len(merged) :
            i < j => /\ merged[i].start_time <= merged[j].start_time
                     /\ merged[i].end_time <= merged[j].start_time

\* an unsorted input with overlaps that merges into at least two intervals
C1_Witness ==
    /\ mpc = "merged"
    /\ Len(merged) >= 2
    /\ Len(merged) < Len(highlights)
    /\ \E i, j \in 1..Len(highlights) :
           i < j /\ heap[i].start_time > heap[j].start_time

\* C2: the merger is idempotent: merging its own output gives the same
\* intervals, equal in every field.
C2_Idempotent ==
    mpc = "remerged" => Deref(heap, again) = merged

\* the merger has run on an output that came from a merge
C2_Witness ==
    /\ mpc = "remerged"
    /\ Len(highlights) = 3
    /\ Len(again) = 2

\* the fields the claim C3 names
Named(h) ==
    [start_time |-> h.start_time, end_time |-> h.end_time,
     importance_score |-> h.importance_score,
     description |-> h.description, category |-> h.category]

ScoreOrZero(h) == IF h.importance_score = None THEN 0 ELSE h.importance_score[1]

\* C3 as stated: whenever A.start_time <= B.start_time and B.start_time <
\* A.end_time, the merger returns the single interval built from A then B,
\* with category A.category if it is present and B.category otherwise.
C3_AsStated ==
    (mpc = "merged" /\ Len(highlights) = 2) =>
        \A a, b \in 1..2 :
            (/\ a # b
             /\ heap[a].start_time <= heap[b].start_time
             /\ heap[b].start_time < heap[a].end_time)
            => /\ Len(merged) = 1
               /\ Named(merged[1]) =
                    [start_time |-> heap[a].start_time,
                     end_time |-> Max(heap[a].end_time, heap[b].end_time),
                     importance_score |->
                         Some(Max(ScoreOrZero(heap[a]), ScoreOrZero(heap[b]))),
                     description |->
                         heap[a].description \o <<Separator>> \o heap[b].description,
                     category |-> IF heap[a].category # None
                                  THEN heap[a].category ELSE heap[b].category]

\* C3, amended: A is the interval the stable sort places first (smaller
\* start_time, or equal start_time and earlier in the input), and an empty
\* category counts as absent.
C3_MergeOfTwo ==
    (mpc = "merged" /\ Len(highlights) = 2) =>
        \A a, b \in 1..2 :
            (/\ a # b
             /\ \/ heap[a].start_time < heap[b].start_time
                \/ heap[a].start_time = heap[b].start_time /\ a < b
             /\ heap[b].start_time < heap[a].end_time)
            => /\ Len(merged) = 1
               /\ Named(merged[1]) =
                    [start_time |-> heap[a].start_time,
                     end_time |-> Max(heap[a].end_time, heap[b].end_time),
                     importance_score |->
                         Some(Max(ScoreOrZero(heap[a]), ScoreOrZero(heap[b]))),
                     description |->
                         heap[a].description \o <<Separator>> \o heap[b].description,
                     category |-> IF heap[a].category \notin {None, Some("")}
                                  THEN heap[a].category ELSE heap[b].category]

\* two overlapping intervals, the second one given first, the first one
\* ending last and carrying an empty category
C3_Witness ==
    /\ mpc = "merged"
    /\ Len(highlights) = 2
    /\ heap[2].start_time < heap[1].start_time
    /\ heap[1].start_time < heap[2].end_time
    /\ heap[1].end_time < heap[2].end_time
    /\ heap[2].category = Some("")
    /\ heap[1].category = Some("goal")
    /\ Len(merged) = 1

NoOverlap(h, g) == ~(h.start_time < g.end_time /\ g.start_time < h.end_time)

\* C4: when no two input intervals overlap (touching is not overlapping),
\* the merger returns every input interval unchanged, ordered by
\* start_time, and as many intervals as it was given.
C4_DisjointUnchanged ==
    (/\ mpc = "merged"
     /\ \A i, j \in 1..Len(highlights) :
            i # j => NoOverlap(before[highlights[i]], before[highlights[j]]))
    => /\ Len(non_overlapping) = Len(highlights)
       /\ Range(non_overlapping) = Range(highlights)
       /\ \A r \in Range(highlights) : heap[r] = before[r]
       /\ \A i, j \in 1..Len(merged) :
              i < j => merged[i].start_time <= merged[j].start_time

\* three disjoint intervals, two of them touching, given out of order
C4_Witness ==
    /\ mpc = "merged"
    /\ Len(highlights) = 3
    /\ Len(non_overlapping) = 3
    /\ heap[1].start_time > heap[2].start_time
    /\ \E i, j \in 1..3 : heap[i].end_time = heap[j].start_time

\* C5: _detect_overlaps does not mutate its input: the caller's list and
\* every object that existed before the call are the same after it, and
\* a returned interval is an input object or a newly created one.
C5_InputsNotMutated ==
    /\ highlights = [k \in 1..Len(highlights) |-> k]
    /\ mpc # "input" =>
         /\ Len(heap) >= Len(before)
         /\ \A r \in 1..Len(before) : heap[r] = before[r]
    /\ mpc = "merged" =>
         \A r \in Range(non_overlapping) :
             r \in Range(highlights) \/ r > Len(before)
    /\ mpc = "remerged" =>
         \A r \in Range(again) :
             r \in Range(non_overlapping) \/ r > Len(before)

\* a call that merged three inputs into one interval
C5_Witness ==
    /\ mpc = "merged"
    /\ Len(highlights) = 3
    /\ Len(non_overlapping) = 1
    /\ Len(heap) = 5


\* the inputs of the last call in the order sorted() gives them: by
\* start_time, and by position in the list where start_time is equal
StableOrder ==
    LET n == Len(highlights)
        Rank(i) ==
            1 + Cardinality({j \in 1..n :
                    \/ before[j].start_time < before[i].start_time
                    \/ before[j].start_time = before[i].start_time /\ j < i})
    IN  [p \in 1..n |-> before[CHOOSE i \in 1..n : Rank(i) = p]]

MaxOf(S) == CHOOSE x \in S : \A y \in S : y <= x

\* a chain begins where an interval does not overlap what came before it
ChainStarts ==
    {i \in 1..Len(StableOrder) :
        i = 1 \/ StableOrder[i].start_time >=
                     MaxOf({StableOrder[k].end_time : k \in 1..(i - 1)})}

\* the last interval of the chain that begins at i
ChainEnd(i) ==
    MaxOf({j \in i..Len(StableOrder) : \A k \in (i + 1)..j : k \notin ChainStarts})

\* the descriptions of s[i..j] joined by " | "
RECURSIVE JoinedDescriptions(_, _, _)
JoinedDescriptions(s, i, j) ==
    IF i = j THEN s[i].description
    ELSE JoinedDescriptions(s, i, j - 1) \o <<Separator>> \o s[j].description

\* the first category of s[i..j] that is not absent; absent if there is none
FirstPresentCategory(s, i, j) ==
    LET present == {k \in i..j : s[k].category # None}
    IN  IF present = {} THEN None
        ELSE s[CHOOSE k \in present : \A l \in present : k <= l].category

\* the first category of s[i..j] that is neither absent nor empty; the
\* category of s[j] if there is none
FirstNonEmptyCategory(s, i, j) ==
    LET present == {k \in i..j : s[k].category \notin {None, Some("")}}
    IN  IF present = {} THEN s[j].category
        ELSE s[CHOOSE k \in present : \A l \in present : k <= l].category

\* what a chain s[i..j] merges into, given the rule for its category
ChainMerge(s, i, j, category) ==
    [start_time |-> s[i].start_time,
     end_time |-> MaxOf({s[k].end_time : k \in i..j}),
     importance_score |-> Some(MaxOf({ScoreOrZero(s[k]) : k \in i..j})),
     description |-> JoinedDescriptions(s, i, j),
     category |-> category]

\* the position in the output of the chain that begins at i
ChainIndex(i) == Cardinality({b \in ChainStarts : b <= i})

\* C21 as stated: every chain of two or more intervals comes out as one
\* interval with the maximum end_time, the descriptions joined in sorted
\* order, the maximum score and the first present category of the chain.
C21_AsStated ==
    mpc = "merged" =>
        /\ Len(merged) = Cardinality(ChainStarts)
        /\ \A i \in ChainStarts :
               ChainEnd(i) > i =>
                   Named(merged[ChainIndex(i)]) =
                       ChainMerge(StableOrder, i, ChainEnd(i),
                           FirstPresentCategory(StableOrder, i, ChainEnd(i)))

\* C21, amended: the merger is one left-to-right pass that merges into the
\* accumulated interval, so a chain of k >= 2 intervals, each overlapping
\* what the earlier ones merged into, comes out as one interval with the
\* maximum end_time, the k descriptions joined by " | " in stable sorted
\* order, the maximum score (absent as 0) and the first category of the
\* chain that is neither absent nor empty (the last one's if there is none).
C21_ChainMerge ==
    mpc = "merged" =>
        /\ Len(merged) = Cardinality(ChainStarts)
        /\ \A i \in ChainStarts :
               ChainEnd(i) > i =>
                   Named(merged[ChainIndex(i)]) =
                       ChainMerge(StableOrder, i, ChainEnd(i),
                           FirstNonEmptyCategory(StableOrder, i, ChainEnd(i)))

\* a chain of three given out of order, two of them starting together, the
\* third overlapping only what the first two merged into, the first one in
\* sorted order carrying an empty category
C21_Witness ==
    /\ mpc = "merged"
    /\ Len(highlights) = 3
    /\ Len(merged) = 1
    /\ before[3].start_time = before[1].start_time
    /\ before[2].start_time >= before[1].end_time
    /\ before[2].start_time < before[3].end_time
    /\ before[1].category = Some("")
    /\ before[3].category = Some("goal")

\* the instant p/2 lies in the time range of one of the intervals hs
Covered(hs, p) ==
    \E k \in 1..Len(hs) : 2 * hs[k].start_time <= p /\ p <= 2 * hs[k].end_time

\* the instants to compare: every whole second and every half second between
Instants == 0..(2 * MaxTime)

\* C29: for inputs with start_time <= end_time the merger preserves
\* coverage: the output intervals cover exactly the instants the input
\* intervals cover, and there are at most as many of them.
C29_CoveragePreserved ==
    /\ mpc = "merged" =>
         /\ \A p \in Instants :
                Covered(Deref(before, highlights), p) <=> Covered(merged, p)
         /\ Len(non_overlapping) <= Len(highlights)
    /\ mpc = "remerged" =>
         /\ \A p \in Instants :
                Covered(Deref(before, non_overlapping), p)
                    <=> Covered(Deref(heap, again), p)
         /\ Len(again) <= Len(non_overlapping)

\* an interval of length zero inside a longer one that also ends last, and
\* an interval apart from both, so that there is a gap to keep
C29_Witness ==
    /\ mpc = "merged"
    /\ Len(highlights) = 3
    /\ Len(merged) = 2
    /\ \E i, j \in 1..3 :
           /\ before[i].start_time = before[i].end_time
           /\ before[j].start_time < before[i].start_time
           /\ before[i].end_time < before[j].end_time
    /\ merged[1].end_time < merged[2].start_time

\* C39 as stated: every interval produced by a merge has consistent derived
\* fields: its duration is end_time - start_time, its start_time_formatted
\* is that of the input supplying its start_time and its end_time_formatted
\* that of an input supplying its end_time, also when the later-starting
\* interval is contained in the earlier one.
C39_AsStated ==
    mpc = "merged" =>
        \A ref \in Range(non_overlapping) :
            ref > Len(before) =>
                /\ heap[ref].duration = Some(heap[ref].end_time - heap[ref].start_time)
                /\ \E i \in 1..Len(before) :
                       /\ before[i].start_time = heap[ref].start_time
                       /\ before[i].start_time_formatted = heap[ref].start_time_formatted
                /\ \E i \in 1..Len(before) :
                       /\ before[i].end_time = heap[ref].end_time
                       /\ before[i].end_time_formatted = heap[ref].end_time_formatted

(***************************************************************************)
(* Properties of the cache and of create_final_highlight.                  *)
(***************************************************************************)
IsCached(r) == r # None /\ "already_exists" \in DOMAIN r[1]
IsFreshSuccess(r) == r # None /\ "video_properties" \in DOMAIN r[1]
IsFailure(r) == r # None /\ ~r[1].success

\* a step that starts a call of create_final_highlight
Called == pc = "idle" /\ calls' = calls + 1

Performed(stage) == \E n \in 1..Len(log) : log[n].stage = stage

PipelineStages ==
    {"overlap_resolution", "makedirs", "extract", "probe", "normalize_intro",
     "normalize_outro", "manifest_write", "concat", "cleanup"}

\* C6: _is_cache_valid is false when the artifact is absent, false when
\* clips.json is absent, and otherwise true exactly when the artifact's
\* modification time is at least that of clips.json.
C6_CacheValidity ==
    [][(Called /\ ~call'.overwrite) =>
         /\ log' # <<>>
         /\ log'[1].stage = "is_cache_valid"
         /\ log'[1].ok =
                IF fs.final = None THEN FALSE
                ELSE IF fs.clips_json = None THEN FALSE
                ELSE fs.final[1].mtime >= fs.clips_json[1].mtime]_vars

\* a cache check that found the artifact and clips.json with equal times
C6_Witness ==
    /\ pc = "idle"
    /\ calls = 2
    /\ log = <<Done("is_cache_valid", 0, TRUE)>>
    /\ fs.final # None /\ fs.clips_json # None
    /\ fs.final[1].mtime = fs.clips_json[1].mtime
    /\ clock = MaxClock

\* C7: a call with overwrite false that finds the cache valid returns the
\* cached response and performs no stage of the pipeline; a call with
\* overwrite true never returns the cached response and enters the pipeline.
C7_CacheGate ==
    /\ (log # <<>> /\ log[1] = Done("is_cache_valid", 0, TRUE)) =>
          /\ pc = "idle"
          /\ outcome = "returned"
          /\ IsCached(result)
          /\ \A stage \in PipelineStages : ~Performed(stage)
    /\ (calls > 0 /\ call.overwrite) =>
          /\ ~IsCached(result)
          /\ ~Performed("is_cache_valid")
          /\ Performed("overlap_resolution")

\* a call with overwrite true that rebuilt an artifact the cache held valid
C7_Witness ==
    /\ calls = 2
    /\ call.overwrite
    /\ pc = "extract"
    /\ IsCacheValid(fs.final, fs.clips_json)

NoExtraction(l) == \A n \in 1..Len(l) : l[n].stage # "extract"

\* C8 as stated: after a fresh run has succeeded and no file has changed, a
\* call with overwrite false returns the cached response and extracts nothing.
C8_AsStated ==
    [][(Called /\ fresh /\ ~call'.overwrite) =>
         /\ pc' = "idle"
         /\ IsCached(result')
         /\ NoExtraction(log')]_vars

\* C8, amended: the same, provided clips.json exists in the directory and
\* no file has changed since the run wrote the artifact.
C8_SecondCallCached ==
    [][(Called /\ fresh /\ ~call'.overwrite /\ fs.clips_json # None) =>
         /\ pc' = "idle"
         /\ IsCached(result')
         /\ NoExtraction(log')
         /\ fs' = fs]_vars

\* the second call, after a fresh run, answered from the cache
C8_Witness ==
    /\ calls = 2
    /\ fresh
    /\ pc = "idle"
    /\ IsCached(result)
    /\ ~call.overwrite
    /\ fs.final[1].mtime = fs.clips_json[1].mtime

RECURSIVE TotalLength(_)
TotalLength(intervals) ==
    IF intervals = <<>> THEN 0
    ELSE (Head(intervals).end_time - Head(intervals).start_time)
         + TotalLength(Tail(intervals))

AllExtracted == \A n \in 1..Len(log) : log[n].stage = "extract" => log[n].ok

\* C9: a fresh successful run in which every extraction succeeded reports
\* clips_used = the number of merged intervals, highlights_duration = the
\* sum of their lengths, and total_duration = highlights_duration +
\* intro_duration + outro_duration.
C9_FreshDurations ==
    (pc = "idle" /\ IsFreshSuccess(result) /\ AllExtracted) =>
        LET r == result[1]
            merged_intervals == NonOverlappingHighlights(video_highlights)
        IN  /\ r.clips_used = Len(merged_intervals)
            /\ Len(r.highlights) = Len(merged_intervals)
            /\ \A k \in 1..Len(merged_intervals) :
                   /\ r.highlights[k].start_time = merged_intervals[k].start_time
                   /\ r.highlights[k].end_time = merged_intervals[k].end_time
            /\ r.highlights_duration = TotalLength(merged_intervals)
            /\ r.intro_duration = (IF assets.intro THEN IntroOutroSeconds ELSE 0)
            /\ r.outro_duration = (IF assets.outro THEN IntroOutroSeconds ELSE 0)
            /\ r.total_duration =
                   r.highlights_duration + r.intro_duration + r.outro_duration

\* three highlights, two of them overlapping, stitched into two clips
C9_Witness ==
    /\ pc = "idle"
    /\ IsFreshSuccess(result)
    /\ AllExtracted
    /\ Len(video_highlights) = 3
    /\ result[1].clips_used = 2
    /\ result[1].highlights_duration = 2
    /\ TotalLength(video_highlights) = 3
    /\ assets.intro /\ ~assets.outro
    /\ result[1].total_duration = 4

AnsweredFromCache == log # <<>> /\ log[1] = Done("is_cache_valid", 0, TRUE)

NoValidClipsFailure ==
    Failure("No valid clips to stitch together",
            "No highlights available for final video")

\* C11 as stated: every call with an empty highlight list returns the
\* failure value "no valid clips to stitch", never a success value.
C11_AsStated ==
    (pc = "idle" /\ calls > 0 /\ call.highlights = <<>>) =>
        /\ outcome = "returned"
        /\ result = Some(NoValidClipsFailure)

\* C11, amended: a call with an empty highlight list that is not answered
\* from the cache (overwrite is true, or the cache is not valid) returns the
\* failure value "no valid clips to stitch", does not raise, runs no stage
\* after overlap resolution and leaves the directory as it was.
C11_EmptyListFails ==
    (pc = "idle" /\ calls > 0 /\ call.highlights = <<>> /\ ~AnsweredFromCache) =>
        /\ outcome = "returned"
        /\ result = Some(NoValidClipsFailure)
        /\ ~result[1].success
        /\ Performed("overlap_resolution")
        /\ \A stage \in PipelineStages \ {"overlap_resolution"} : ~Performed(stage)

\* a call with an empty list and overwrite true, on a directory whose
\* artifact the cache holds valid
C11_Witness ==
    /\ pc = "idle"
    /\ call.highlights = <<>>
    /\ call.overwrite
    /\ video_highlights # <<>>
    /\ IsCacheValid(fs.final, fs.clips_json)
    /\ result = Some(NoValidClipsFailure)

\* the entries the extraction loop has written to the log, in order
Extractions == SelectSeq(log, LAMBDA e : e.stage = "extract")

\* the paths of the first n extractions that succeeded, in order
RECURSIVE ExtractedPaths(_, _, _)
ExtractedPaths(extractions, intervals, n) ==
    IF n = 0 THEN <<>>
    ELSE ExtractedPaths(extractions, intervals, n - 1)
         \o (IF extractions[n].ok
             THEN <<ClipFile(n - 1, intervals[n])>> ELSE <<>>)

InCall == pc \notin {"idle", "off"}

\* C12: the extraction loop attempts each merged interval exactly once, in
\* interval order, goes on after a failed extraction, and the list of clip
\* paths is exactly the subsequence of the merged intervals whose extraction
\* succeeded, in start_time order.
C12_ExtractionLoop ==
    InCall =>
        LET intervals == locals.non_overlapping_highlights
            attempted == IF pc = "extract" THEN locals.k - 1 ELSE Len(intervals)
        IN  /\ Len(Extractions) = attempted
            /\ \A n \in 1..attempted : Extractions[n].idx = n
            /\ \A i, j \in 1..Len(intervals) :
                   i < j => intervals[i].start_time < intervals[j].start_time
            /\ locals.clip_paths = ExtractedPaths(Extractions, intervals, attempted)
            /\ \A p \in 1..Len(locals.clip_paths) :
                   locals.clip_paths[p] \in fs.temp_clips[1]

\* two merged intervals: the first extraction failed, the second succeeded
C12_Witness ==
    /\ pc = "probe"
    /\ Len(locals.non_overlapping_highlights) = 2
    /\ Extractions = <<Done("extract", 1, FALSE), Done("extract", 2, TRUE)>>
    /\ locals.clip_paths = <<ClipFile(1, locals.non_overlapping_highlights[2])>>

AllExtractionsFailed ==
    /\ Extractions # <<>>
    /\ \A n \in 1..Len(Extractions) : ~Extractions[n].ok

\* C13: when every clip extraction of a run fails, the call returns the
\* failure value "Failed to extract any clips" with success = false, none of
\* property probe, normalization, manifest build, concatenation is run, and
\* the run does not write the final artifact: the artifact changes only in
\* the concatenation of a run that extracted at least one clip.
C13_AllExtractionsFail ==
    /\ []((pc = "idle" /\ AllExtractionsFailed) =>
            /\ outcome = "returned"
            /\ result # None
            /\ result[1].success = FALSE
            /\ result[1].error = "Failed to extract any clips"
            /\ \A stage \in {"probe", "normalize_intro", "normalize_outro",
                              "manifest_write", "concat", "cleanup"} :
                   ~Performed(stage))
    /\ [][fs'.final # fs.final =>
            /\ pc = "stitch"
            /\ ~AllExtractionsFailed]_vars

\* a second run in which both extractions failed, on a directory that holds
\* the artifact of the first run
C13_Witness ==
    /\ pc = "idle"
    /\ calls = 2
    /\ Len(Extractions) = 2
    /\ AllExtractionsFailed
    /\ IsFailure(result)
    /\ fs.final # None /\ fs.final[1].complete

\* C14: the manifest a run writes lists the normalized intro if and only if
\* the intro asset exists, then every successfully extracted clip in
\* extraction order, then the normalized outro if and only if the outro
\* asset exists; a missing asset is skipped without any normalization being
\* attempted for it, and the run goes on.
C14_ManifestOrder ==
    /\ pc \in {"stitch", "cleanup"} =>
          LET intervals == locals.non_overlapping_highlights
          IN  /\ fs.concat_list # None
              /\ fs.concat_list[1] =
                     (IF assets.intro THEN <<NormalizedIntroFile>> ELSE <<>>)
                     \o ExtractedPaths(Extractions, intervals, Len(intervals))
                     \o (IF assets.outro THEN <<NormalizedOutroFile>> ELSE <<>>)
    /\ ~assets.intro => ~Performed("normalize_intro")
    /\ ~assets.outro => ~Performed("normalize_outro")
    /\ (pc = "idle" /\ IsFailure(result) /\ ~assets.intro /\ ~assets.outro) =>
          result[1].error \notin {"Failed to normalize video intro",
                                  "Failed to normalize video outro"}

\* a manifest of the intro and two clips, written with no outro asset
C14_Witness ==
    /\ pc = "stitch"
    /\ assets.intro /\ ~assets.outro
    /\ Len(locals.clip_paths) = 2
    /\ fs.concat_list = Some(<<NormalizedIntroFile>> \o locals.clip_paths)

\* the position of a logged stage in the order CacheCheck, OverlapResolution,
\* ClipExtraction, PropertyProbe, IntroOutroNormalization, ManifestBuild,
\* Concatenate, Cleanup
StageRank(stage) ==
    CASE stage = "is_cache_valid" -> 0
      [] stage = "overlap_resolution" -> 1
      [] stage = "makedirs" -> 2
      [] stage = "extract" -> 3
      [] stage = "probe" -> 4
      [] stage = "normalize_intro" -> 5
      [] stage = "normalize_outro" -> 6
      [] stage = "manifest_write" -> 7
      [] stage = "concat" -> 8
      [] stage = "cleanup" -> 9

\* the position of the stage the call is about to run; Done is 10
PcRank ==
    CASE pc = "extract" -> 3
      [] pc = "probe" -> 4
      [] pc = "normalize_intro" -> 5
      [] pc = "normalize_outro" -> 6
      [] pc = "manifest" -> 7
      [] pc = "stitch" -> 8
      [] pc = "cleanup" -> 9
      [] pc \in {"idle", "off"} -> 10

\* C15: the stages of one call run in the fixed order cache check, overlap
\* resolution, clip extraction, property probe, intro/outro normalization,
\* manifest build, concatenation, cleanup; no stage runs twice or is
\* re-entered (the extractions are numbered upwards, one per interval); at
\* most one media-tool invocation of the call is in flight, and a stage
\* that starts finds none in flight.
C15_StageOrder ==
    /\ \A i, j \in 1..Len(log) :
          i < j =>
            \/ StageRank(log[i].stage) < StageRank(log[j].stage)
            \/ /\ log[i].stage = "extract" /\ log[j].stage = "extract"
               /\ log[i].idx < log[j].idx
    /\ \A n \in 1..Len(log) :
          \/ StageRank(log[n].stage) < PcRank
          \/ /\ pc = "extract" /\ log[n].stage = "extract"
             /\ log[n].idx < locals.k
    /\ in_flight \in {0, 1}
    /\ in_flight = 1 => pc \in ToolStages
    /\ (pc = "idle" /\ IsFreshSuccess(result)) =>
          /\ \A stage \in PipelineStages \ {"normalize_intro", "normalize_outro"} :
                 Performed(stage)
          /\ assets.intro => Performed("normalize_intro")
          /\ assets.outro => Performed("normalize_outro")
          /\ log[Len(log)].stage = "cleanup"

\* a call that went through every stage, with two clips, intro and outro
C15_Witness ==
    /\ pc = "idle"
    /\ Len(log) = 11
    /\ [n \in 1..11 |-> log[n].stage] =
          <<"is_cache_valid", "overlap_resolution", "makedirs", "extract",
            "extract", "probe", "normalize_intro", "normalize_outro",
            "manifest_write", "concat", "cleanup">>
    /\ IsFreshSuccess(result)

AbortingStages == {"normalize_intro", "normalize_outro", "manifest_write", "concat"}

\* the failure value names the stage: in a field of its own, or in the
\* text of error
NamesStage(r, stage) ==
    \/ "stage" \in DOMAIN r /\ r.stage = stage
    \/ stage = "normalize_intro" /\ r.error = "Failed to normalize video intro"
    \/ stage = "normalize_outro" /\ r.error = "Failed to normalize video outro"
    \/ stage = "concat" /\ r.error = "Failed to stitch clips"

\* C16: a failure of intro or outro normalization, of the manifest write or
\* of the concatenation ends the run: that stage is the last one performed,
\* and the call returns a failure value with success = false that contains
\* the name of the failed stage, the error message and a summary.
C16_AsStated ==
    (/\ pc = "idle"
     /\ \E n \in 1..Len(log) : log[n].stage \in AbortingStages /\ ~log[n].ok)
    => /\ log[Len(log)].stage \in AbortingStages
       /\ ~log[Len(log)].ok
       /\ outcome = "returned"
       /\ result # None
       /\ result[1].success = FALSE
       /\ {"error", "message"} \subseteq DOMAIN result[1]
       /\ result[1].message = "Failed to create final highlight"
       /\ NamesStage(result[1], log[Len(log)].stage)

\* clips.json was rewritten after the artifact was written
StaleArtifact(dir) ==
    /\ dir.final # None
    /\ dir.clips_json # None
    /\ dir.clips_json[1].mtime > dir.final[1].mtime

\* C20: when clips.json has a modification time strictly later than that of
\* the final artifact, a call with overwrite false does not return the cached
\* result but enters the pipeline; a call returns the cached result only when
\* the artifact's modification time is at least that of clips.json.
C20_StaleCacheBypassed ==
    [][(Called /\ ~call'.overwrite) =>
         /\ StaleArtifact(fs) =>
               /\ ~IsCached(result')
               /\ log'[1] = Done("is_cache_valid", 0, FALSE)
               /\ Len(log') >= 2
               /\ log'[2].stage = "overlap_resolution"
         /\ IsCached(result') =>
               /\ fs.final # None
               /\ fs.clips_json # None
               /\ fs.final[1].mtime >= fs.clips_json[1].mtime]_vars

\* the second call, with overwrite false, extracts again: clips.json was
\* rewritten at time 1, after the first call wrote the artifact at time 0
C20_Witness ==
    /\ calls = 2
    /\ ~call.overwrite
    /\ pc = "extract"
    /\ StaleArtifact(fs)
    /\ fs.final[1].complete
    /\ log[1] = Done("is_cache_valid", 0, FALSE)

LastDone == log[Len(log)]

\* C22 as stated: a final artifact is never left half-written where the
\* cache can see it: no file that a failed concatenation left at the final
\* path is accepted by _is_cache_valid, and no cached response is given for it.
C22_AsStated ==
    /\ (fs.final # None /\ ~fs.final[1].complete)
           => ~IsCacheValid(fs.final, fs.clips_json)
    /\ (pc = "idle" /\ IsCached(result)) => fs.final[1].complete

\* C25: after a successful run whose cleanup met no error, temp_clips,
\* concat_list.txt, normalized_intro.mp4 and normalized_outro.mp4 are all
\* absent, and the cleanup step leaves the final artifact, clips.json and the
\* source video as they were.
C25_CleanupRemovesIntermediates ==
    /\ [](/\ pc = "idle"
          /\ log # <<>>
          /\ LastDone = Done("cleanup", 0, TRUE)
          => /\ IsFreshSuccess(result)
             /\ fs.temp_clips = None
             /\ fs.concat_list = None
             /\ fs.normalized_intro = None
             /\ fs.normalized_outro = None)
    /\ [][(pc = "cleanup" /\ pc' = "idle")
              => /\ fs'.final = fs.final
                 /\ fs'.clips_json = fs.clips_json
                 /\ fs'.video = fs.video]_vars

\* a run with intro and outro has returned after a cleanup without error;
\* the artifact, clips.json and the source video are in the directory
C25_Witness ==
    /\ pc = "idle"
    /\ log # <<>>
    /\ LastDone = Done("cleanup", 0, TRUE)
    /\ assets.intro /\ assets.outro
    /\ Performed("normalize_intro") /\ Performed("normalize_outro")
    /\ fs.final # None /\ fs.final[1].complete
    /\ fs.clips_json # None
    /\ fs.video # None

\* C26: a failure inside cleanup is never propagated: when a removal fails
\* after a successful concatenation, create_final_highlight still returns
\* the fresh-success result with the output path.
C26_CleanupFailureSwallowed ==
    (pc = "idle" /\ log # <<>> /\ LastDone.stage = "cleanup" /\ ~LastDone.ok)
    => /\ outcome = "returned"
       /\ IsFreshSuccess(result)
       /\ result[1].success
       /\ result[1].output_path = "final_highlight.mp4"
       /\ fs.final # None /\ fs.final[1].complete

\* the removal of temp_clips failed, so every intermediate is still there
C26_Witness ==
    /\ pc = "idle"
    /\ log # <<>>
    /\ LastDone = Done("cleanup", 1, FALSE)
    /\ fs.temp_clips # None /\ fs.temp_clips[1] # {}
    /\ fs.concat_list # None
    /\ IsFreshSuccess(result)

\* the clip files the last call has extracted
ExtractedByCall ==
    LET intervals == NonOverlappingHighlights(call.highlights)
    IN  {ClipFile(log[n].idx - 1, intervals[log[n].idx]) :
            n \in {m \in 1..Len(log) : log[m].stage = "extract" /\ log[m].ok}}

\* C27 as stated: whenever create_final_highlight returns, with success or
\* with a failure value, no clip file extracted by that run remains in
\* temp_clips.
C27_AsStated ==
    (pc = "idle" /\ outcome = "returned") =>
        \A clip \in ExtractedByCall :
            fs.temp_clips = None \/ clip \notin fs.temp_clips[1]

\* C28: the normalization targets come from a probe of the first clip whose
\* extraction succeeded; intro and outro are normalized with the same
\* targets; a failed probe gives no properties, the run goes on, and intro
\* and outro are then normalized without resolution or frame rate.
C28_ProbeTargets ==
    /\ \A n \in 1..Len(log) :
           log[n].stage = "probe" =>
               /\ \E m \in 1..(n - 1) : log[m] = Done("extract", log[n].idx + 1, TRUE)
               /\ \A m \in 1..(n - 1) :
                      (log[m].stage = "extract" /\ log[m].ok)
                          => log[m].idx >= log[n].idx + 1
               /\ InCall => (log[n].ok <=> locals.main_clip_properties # None)
               /\ InCall /\ ~log[n].ok =>
                      NormalizeParams(locals.main_clip_properties) =
                          [t |-> IntroOutroSeconds, s |-> None, r |-> None]
               /\ InCall /\ log[n].ok =>
                      NormalizeParams(locals.main_clip_properties) =
                          [t |-> IntroOutroSeconds,
                           s |-> Some(<<ProbedProperties.width,
                                        ProbedProperties.height>>),
                           r |-> Some(ProbedProperties.fps)]
    /\ (InCall /\ Performed("probe")) =>
           /\ (\E n \in 1..Len(log) : log[n] = Done("normalize_intro", 0, TRUE))
                  => fs.normalized_intro =
                         Some(NormalizeParams(locals.main_clip_properties))
           /\ (\E n \in 1..Len(log) : log[n] = Done("normalize_outro", 0, TRUE))
                  => fs.normalized_outro =
                         Some(NormalizeParams(locals.main_clip_properties))
    /\ (log # <<>> /\ LastDone.stage = "probe")
           => pc \in {"normalize_intro", "normalize_outro", "manifest"}

\* the first extraction failed, the probe of the second clip failed too,
\* and intro and outro have been normalized nevertheless
C28_Witness ==
    /\ pc = "manifest"
    /\ \E n \in 1..Len(log) : log[n] = Done("extract", 1, FALSE)
    /\ \E n \in 1..Len(log) : log[n] = Done("probe", 1, FALSE)
    /\ fs.normalized_intro # None /\ fs.normalized_intro[1].s = None
    /\ fs.normalized_outro # None /\ fs.normalized_outro[1].r = None

\* C30 as stated: a cached response given right after the run that built
\* the artifact, for the same highlight list, reports the clips_used,
\* highlights_duration and total_duration that the run reported.
C30_AsStated ==
    [][(/\ pc = "idle"
        /\ IsFreshSuccess(result)
        /\ IsCached(result')
        /\ call'.highlights = call.highlights)
       => /\ result'[1].clips_used = result[1].clips_used
          /\ result'[1].highlights_duration = result[1].highlights_duration
          /\ result'[1].total_duration = result[1].total_duration]_vars

\* the total length of a set of clip files
RECURSIVE ClipSeconds(_)
ClipSeconds(clips) ==
    IF clips = {} THEN 0
    ELSE LET clip == CHOOSE c \in clips : TRUE
         IN  (clip.end - clip.start) + ClipSeconds(clips \ {clip})

\* C31 as stated: in every fresh-success result, highlights_duration is the
\* sum of end_time - start_time over exactly the clips_used clips that were
\* placed in the reel, also when some extractions failed and were skipped.
C31_AsStated ==
    (pc = "idle" /\ IsFreshSuccess(result)) =>
        /\ result[1].clips_used = Cardinality(ExtractedByCall)
        /\ result[1].highlights_duration = ClipSeconds(ExtractedByCall)

(***************************************************************************)
(* Properties of the clip extractors.                                      *)
(***************************************************************************)
\* C17: extract_clip cuts from max(0, start_time - 5) to end_time + 5: the
\* buffered start is never negative and the cut lasts at least
\* end_time - start_time and at most end_time - start_time + 10; the loop of
\* _extract_individual_clips cuts exactly from start_time to end_time.
C17_BufferedCut ==
    LET start_time == request.start_time
        end_time == request.end_time
    IN  /\ epc \in {"extract_clip returned", "extract_clip raised"} =>
              LET cut == ffmpeg_input[1]
              IN  /\ cut.ss = (IF start_time >= 5 THEN start_time - 5 ELSE 0)
                  /\ cut.ss >= 0
                  /\ cut.ss + cut.t = end_time + 5
                  /\ cut.t >= end_time - start_time
                  /\ cut.t <= end_time - start_time + 10
        /\ epc \in {"batch appended", "batch skipped"} =>
              LET cut == ffmpeg_input[1]
              IN  /\ cut.ss = start_time
                  /\ cut.ss + cut.t = end_time

\* extract_clip on a highlight from 3 to 7: the start is clamped to 0 and
\* the cut lasts 12 seconds, between 4 and 14
C17_Witness ==
    /\ epc = "extract_clip returned"
    /\ request = [start_time |-> 3, end_time |-> 7]
    /\ ffmpeg_input = Some([ss |-> 0, t |-> 12])

(***************************************************************************)
(* Properties of the manifest lines.                                       *)
(***************************************************************************)
\* the escaping the rule describes, one character at a time
RECURSIVE EscapedByRule(_)
EscapedByRule(path) ==
    IF path = <<>> THEN <<>>
    ELSE (CASE Head(path) = "\\" -> <<"\\", "\\">>
            [] Head(path) = ":" -> <<"\\", ":">>
            [] OTHER -> <<Head(path)>>)
         \o EscapedByRule(Tail(path))

\* a backslash followed by a character yields that character
RECURSIVE Unescaped(_)
Unescaped(str) ==
    IF str = <<>> THEN <<>>
    ELSE IF Head(str) = "\\" /\ Len(str) >= 2
    THEN <<str[2]>> \o Unescaped(SubSeq(str, 3, Len(str)))
    ELSE <<Head(str)>> \o Unescaped(Tail(str))

\* the escaped path between file ' and the closing quote
Body(line) == SubSeq(line, 2, Len(line) - 1)

\* C18: every manifest line is file '<p>' where <p> is the path with each
\* backslash doubled and each colon preceded by a backslash; unescaping <p>
\* gives the path back, and two different paths never get the same line.
C18_EscapeRoundTrip ==
    wpc = "written" =>
        /\ lines[1] = <<"file '">> \o EscapedByRule(abs_path) \o <<"'\n">>
        /\ lines[2] = <<"file '">> \o EscapedByRule(other_path) \o <<"'\n">>
        /\ Unescaped(Body(lines[1])) = abs_path
        /\ Unescaped(Body(lines[2])) = other_path
        /\ lines[1] = lines[2] => abs_path = other_path

\* a:\a is written as a\:\\a, next to the different path a\:a
C18_Witness ==
    /\ wpc = "written"
    /\ abs_path = <<"a", ":", "\\", "a">>
    /\ other_path = <<"a", "\\", ":", "a">>
    /\ Body(lines[1]) = <<"a", "\\", ":", "\\", "\\", "a">>
    /\ Body(lines[2]) = <<"a", "\\", "\\", "\\", ":", "a">>

(***************************************************************************)
(* Properties of concurrent calls.                                         *)
(***************************************************************************)
\* the files of a directory that a call has written
WrittenBy(r, dir) ==
    {f \in {"final", "concat_list", "normalized_intro", "normalized_outro"} :
        dir[f] # None /\ dir[f][1].by = r}

ClipsWrittenBy(r, dir) ==
    IF dir.temp_clips = None THEN {} ELSE {c \in dir.temp_clips[1] : c.by = r}

\* the manifest a call working alone writes: its own normalized intro, its
\* own clips, its own normalized outro
OwnManifest(r) ==
    <<EntryPath(runs[r].output_dir, NormalizedIntroFile)>>
    \o runs[r].clip_paths
    \o <<EntryPath(runs[r].output_dir, NormalizedOutroFile)>>

\* the artifact a call working alone writes: the files of its manifest, all
\* written by itself, the intro and outro normalized to its own first clip
OwnArtifact(r) ==
    LET own(file) == [by |-> r, target |-> Some([name |-> runs[r].clip_paths[1].file,
                                                 by |-> r])]
    IN  <<own(NormalizedIntroFile)>>
        \o [n \in 1..Len(runs[r].clip_paths) |->
               [name |-> runs[r].clip_paths[n].file, by |-> r]]
        \o <<own(NormalizedOutroFile)>>

\* C19: two calls running concurrently on different output directories do
\* not interfere, whatever the interleaving: a call creates, writes and
\* removes files under its own output directory only, every file it reads
\* is as it wrote it, and its result is the one it produces running alone.
C19_Isolation ==
    runs[1].output_dir # runs[2].output_dir =>
      \A r \in Runs :
        LET me == runs[r]
            mine == me.output_dir
        IN  /\ \A path \in touched[r] : path.dir = mine
            /\ \A key \in Keys \ {mine} :
                   WrittenBy(r, disk[key]) = {} /\ ClipsWrittenBy(r, disk[key]) = {}
            /\ me.pc = "idle" => disk[mine] = disk0[mine]
            /\ me.pc = "stitch" =>
                   /\ disk[mine].concat_list = Some([by |-> r, lines |-> OwnManifest(r)])
                   /\ \A n \in 1..Len(OwnManifest(r)) :
                          ReadEntry(disk, OwnManifest(r)[n]) # None
            /\ me.pc \in {"cleanup", "done"} /\ touched[r] # {} /\ me.clip_paths # <<>>
                 /\ (me.result = None \/ me.result[1].success) =>
                   disk[mine].final =
                       Some([mtime |-> 0, by |-> r, content |-> OwnArtifact(r)])
            /\ me.pc = "done" =>
                   IF CacheHit(me.overwrite,
                               IsCacheValid(disk0[mine].final, disk0[mine].clips_json))
                   THEN me.result = Some([success |-> TRUE, already_exists |-> TRUE,
                                          artifact |-> disk0[mine].final[1]])
                   ELSE IF me.clip_paths = <<>>
                   THEN /\ ~me.result[1].success
                        /\ me.result[1].error = "Failed to extract any clips"
                   ELSE \/ /\ ~me.result[1].success
                           /\ me.result[1].error = "Failed to stitch clips"
                        \/ me.result =
                              Some([success |-> TRUE,
                                    clips_used |-> Len(me.clip_paths),
                                    video_properties |->
                                        Some([name |-> me.clip_paths[1].file, by |-> r])])

\* call 1 is about to stitch in output/a while call 2 is cleaning up in
\* output/b; both have extracted two clips
C19_Witness ==
    /\ runs[1].output_dir = "a" /\ runs[2].output_dir = "b"
    /\ runs[1].pc = "stitch" /\ runs[2].pc = "cleanup"
    /\ Len(runs[1].clip_paths) = 2 /\ Len(runs[2].clip_paths) = 2
    /\ disk["b"].final # None /\ disk["b"].final[1].by = 2
    /\ disk["a"].final = None

\* a call has extracted clips that its concatenation has not read yet
Pending(r) ==
    /\ runs[r].pc \in {"extract", "probe", "probing", "normalized_intro",
                       "normalized_outro", "manifest", "stitch"}
    /\ runs[r].clip_paths # <<>>

\* the clips a call has extracted are gone, and so is the manifest it wrote
Lost(r) ==
    /\ \A n \in 1..Len(runs[r].clip_paths) :
           ReadEntry(disk, runs[r].clip_paths[n]) = None
    /\ runs[r].pc = "stitch" =>
           ReadFile(disk, ConcatFilePath(runs[r].output_dir)) = None

\* C23: nothing keeps a second call out of an output directory that a call
\* is working in, and when two calls work in one directory the cleanup of
\* one removes the clips and the manifest that the other has produced and
\* not yet concatenated.
C23_SameDirectoryRace ==
    /\ [](\A r \in Runs :
              (runs[r].pc = "idle" /\ thread = 0)
                  => ENABLED PairBegin(r, TRUE))
    /\ [][\A r \in Runs, o \in Runs :
              (/\ o # r
               /\ runs[o].output_dir = runs[r].output_dir
               /\ runs[o].pc = "cleanup" /\ runs'[o].pc = "done"
               /\ Pending(r))
              => Lost(r)']_vars

\* call 1 has written its manifest and is about to concatenate; call 2, in
\* the same directory, has finished with success and its cleanup has taken
\* the manifest and the clips of call 1 away
C23_Witness ==
    /\ runs[1].output_dir = runs[2].output_dir
    /\ runs[1].pc = "stitch"
    /\ Len(runs[1].clip_paths) = 2
    /\ ConcatFilePath(runs[1].output_dir) \in touched[1]
    /\ runs[2].pc = "done"
    /\ runs[2].result # None /\ runs[2].result[1].success
    /\ "clips_used" \in DOMAIN runs[2].result[1]
    /\ Lost(1)

\* a call whose invocation of the media tool has started and not returned
ToolRunning(r) ==
    runs[r].pc \in {"extract", "probing", "normalized_intro", "normalized_outro",
                    "stitch"}

\* the next step of a call
PairProgress(r) ==
    \/ \E overwrite \in BOOLEAN : PairBegin(r, overwrite)
    \/ \E ok \in BOOLEAN : PairExtractClip(r, ok)
    \/ PairProbeStart(r)
    \/ PairPropertyProbe(r)
    \/ \E file \in {NormalizedIntroFile, NormalizedOutroFile} : PairNormalize(r, file)
    \/ PairBuildManifest(r)
    \/ \E ok \in BOOLEAN : PairStitch(r, ok)
    \/ PairCleanup(r)

\* C24 as stated: every invocation of the media tool (probe, extraction,
\* normalization, concatenation) is off the event loop, so while one call
\* waits for the tool the other call can take its next step.
C24_AsStated ==
    \A r \in Runs, o \in Runs :
        (o # r /\ ToolRunning(r) /\ runs[o].pc # "done") => ENABLED PairProgress(o)

(***************************************************************************)
(* Properties of the websocket ConnectionManager.                          *)
(***************************************************************************)
\* C32: after any sequence of connect, subscribe_to_video,
\* unsubscribe_from_video and disconnect, video_subscribers holds no video
\* whose subscriber set is empty: the key goes with its last subscriber.
C32_NoEmptySubscriberSet ==
    \A v \in VideoIds : video_subscribers[v] # Some({})

C32_Witness ==
    /\ last_op = "left"
    /\ \A v \in VideoIds : video_subscribers[v] = None

\* C33 as stated: disconnect(c) takes c out of the connections and out of
\* every subscriber set and leaves every other client as it was; a send of a
\* broadcast goes to a client that is subscribed and connected at that
\* moment; and when a broadcast has ended, each client that was subscribed
\* and connected throughout got the message exactly once.
C33_AsStated ==
    /\ [][\A c \in Clients :
              Disconnect(c) =>
                  /\ c \notin active_connections'
                  /\ \A v \in VideoIds : c \notin Subscribers(video_subscribers', v)
                  /\ active_connections' \ {c} = active_connections \ {c}
                  /\ \A v \in VideoIds :
                         Subscribers(video_subscribers', v) \ {c}
                             = Subscribers(video_subscribers, v) \ {c}]_vars
    /\ [][\A c \in Clients :
              broadcast'.sent[c] > broadcast.sent[c] =>
                  /\ c \in active_connections
                  /\ c \in Subscribers(video_subscribers, broadcast.video[1])]_vars
    /\ [](broadcast.state \in {"completed", "raised"} =>
              /\ \A c \in broadcast.steady : broadcast.sent[c] = 1
              /\ \A c \in Clients : broadcast.sent[c] <= 1)

\* C34 as stated: broadcast_to_video ends without an error, and when it has
\* ended every client that was subscribed to the video and connected from its
\* start to its end has been sent the message, whatever other clients did
\* while it was suspended at a send.
C34_AsStated ==
    /\ broadcast.state # "raised"
    /\ broadcast.state = "completed" => broadcast.steady \subseteq Delivered(broadcast)

(***************************************************************************)
(* Properties of process_video_task.                                       *)
(***************************************************************************)
StatusRank(status) ==
    CHOOSE k \in 0..4 :
        <<"pending", "downloading", "transcribing", "analyzing", "completed">>[k + 1] = status

ProgressValues == <<0, 10, 30, 60, 100>>

ProgressRank(progress) == CHOOSE k \in 1..5 : ProgressValues[k] = progress

Row(rows, video_id) == rows[video_id][1]

\* C35: the committed status of a video moves one step along pending,
\* downloading, transcribing, analyzing, completed, or to failed, and leaves
\* failed no more; the committed progress moves from each of 0, 10, 30, 60,
\* 100 to the next and never down; and a progress or completion notification
\* carries the status and progress committed before it is sent.
C35_StatusProgression ==
    [][\A v \in VideoIds :
           db_videos[v] # None =>
               /\ db_videos'[v] # None
               /\ Row(db_videos, v).status = "failed" => Row(db_videos', v).status = "failed"
               /\ Row(db_videos', v).status # Row(db_videos, v).status =>
                      \/ Row(db_videos', v).status = "failed"
                      \/ StatusRank(Row(db_videos', v).status)
                             = StatusRank(Row(db_videos, v).status) + 1
               /\ Row(db_videos', v).processing_progress \in Range(ProgressValues)
               /\ Row(db_videos', v).processing_progress # Row(db_videos, v).processing_progress =>
                      ProgressRank(Row(db_videos', v).processing_progress)
                          = ProgressRank(Row(db_videos, v).processing_progress) + 1
               /\ Len(notifications'[v]) > Len(notifications[v]) =>
                      LET note == notifications'[v][Len(notifications'[v])]
                      IN  note.type # "error" =>
                              /\ Row(db_videos, v).status = note.status
                              /\ Row(db_videos, v).processing_progress = note.progress]_vars

C35_Witness ==
    \E v \in VideoIds, w \in VideoIds :
        /\ db_videos[v] # None /\ db_videos[w] # None
        /\ Row(db_videos, v).status = "completed"
        /\ Row(db_videos, v).processing_progress = 100
        /\ Len(notifications[v]) = 4
        /\ tasks[v].pc = "done"
        /\ Row(db_videos, w).status = "failed"
        /\ Row(db_videos, w).processing_progress = 30

\* C36 as stated: once completed has been committed with progress 100, the
\* task never changes the status of the video.
C36_AsStated ==
    [][\A v \in VideoIds :
           (/\ db_videos[v] # None
            /\ Row(db_videos, v).status = "completed"
            /\ Row(db_videos, v).processing_progress = 100)
               => Row(db_videos', v).status = "completed"]_vars

(***************************************************************************)
(* Properties of generate_highlight_reel_task.                             *)
(***************************************************************************)
RECURSIVE ReelSeconds(_, _)
ReelSeconds(durations, clips) ==
    IF clips = <<>> THEN 0
    ELSE durations[Head(clips)] + ReelSeconds(durations, Tail(clips))

\* C37 as stated: the clips extracted are the first highlights of the
\* selection, in order; their durations sum to max_duration at most; the
\* loop ends at the first highlight that would pass the limit; and
\* concatenate_clips is called with at least one clip.
C37_AsStated ==
    /\ \A k \in 1..Len(reel.clip_paths) : reel.clip_paths[k] = k
    /\ ReelSeconds(reel.highlights, reel.clip_paths) <= reel.max_duration
    /\ reel.total_duration = ReelSeconds(reel.highlights, reel.clip_paths)
    /\ (reel.pc \in {"concat", "thumbnail", "done"}
            /\ Len(reel.clip_paths) < Len(reel.highlights)) =>
           reel.total_duration + reel.highlights[Len(reel.clip_paths) + 1]
               > reel.max_duration
    /\ reel.concatenated # None => reel.concatenated[1] # <<>>

(***************************************************************************)
(* Properties of auto_select_highlights.                                   *)
(***************************************************************************)
RowSeconds(rows, ids) ==
    LET RECURSIVE Sum(_)
        Sum(S) == IF S = {} THEN 0
                  ELSE LET id == CHOOSE x \in S : TRUE
                       IN  rows[id].duration + Sum(S \ {id})
    IN  Sum(ids)

\* C38 as stated: when auto_select_highlights has returned, the highlights
\* of the video with is_included set are exactly the selected ones it
\* returned, each of them scores min_score or more, and their durations sum
\* to target_duration at most.
C38_AsStated ==
    selection.pc = "returned" =>
        LET included == {id \in DOMAIN selection.db : selection.db[id].is_included}
        IN  /\ included = Range(selection.selected_highlights)
            /\ \A id \in included : selection.db[id].score >= selection.min_score
            /\ RowSeconds(selection.db, included) <= selection.target_duration

InitMerge == MergeInit /\ RunIdle /\ ClipIdle /\ EscapeIdle /\ PairIdle /\ BackendIdle

NextMerge == MergeNext

SpecMerge == InitMerge /\ [][NextMerge]_vars
\* the extractors on one highlight
InitCover == CoverInit /\ RunIdle /\ ClipIdle /\ EscapeIdle /\ PairIdle /\ BackendIdle

NextCover == MergeNext

SpecCover == InitCover /\ [][NextCover]_vars

InitClip == ClipInit /\ MergeIdle /\ RunIdle /\ EscapeIdle /\ PairIdle /\ BackendIdle

SpecClip == InitClip /\ [][ClipNext]_vars
\* the writing of manifest lines
InitEscape == EscapeInit /\ MergeIdle /\ RunIdle /\ ClipIdle /\ PairIdle /\ BackendIdle

SpecEscape == InitEscape /\ [][EscapeNext]_vars
\* two concurrent calls
InitPair == PairInit /\ MergeIdle /\ RunIdle /\ ClipIdle /\ EscapeIdle /\ BackendIdle

SpecPair == InitPair /\ [][PairNext]_vars

\* the websocket manager
InitWs == ManagerInit /\ MergeIdle /\ RunIdle /\ ClipIdle /\ EscapeIdle /\ PairIdle /\ TaskIdle /\ ReelIdle /\ SelectIdle

SpecWs == InitWs /\ [][WsNext]_vars
\* two video processing tasks
InitTask == TaskInit /\ MergeIdle /\ RunIdle /\ ClipIdle /\ EscapeIdle /\ PairIdle /\ WsIdle /\ ReelIdle /\ SelectIdle

SpecTask == InitTask /\ [][TaskNext]_vars
\* the reel task
InitReel == ReelInit /\ MergeIdle /\ RunIdle /\ ClipIdle /\ EscapeIdle /\ PairIdle /\ WsIdle /\ TaskIdle /\ SelectIdle

SpecReel == InitReel /\ [][ReelNext]_vars
\* the automatic selection
InitSelect == SelectInit /\ MergeIdle /\ RunIdle /\ ClipIdle /\ EscapeIdle /\ PairIdle /\ WsIdle /\ TaskIdle /\ ReelIdle

SpecSelect == InitSelect /\ [][SelectNext]_vars
====
